---------------------------- MODULE Spec2Model ----------------------------
(***************************************************************************)
(* A model of the llamagraph core: the knowledge-graph store               *)
(* (llamagraph/graph/knowledge_graph.py), the query engine                 *)
(* (llamagraph/graph/query_engine.py), the LRU cache                       *)
(* (llamagraph/utils/cache.py), the thread fan-out                         *)
(* (llamagraph/utils/threading.py) and the entity / relation extractors    *)
(* (llamagraph/extractor/*.py).                                            *)
(*                                                                         *)
(* Strings are sequences of one-character strings, so that lower(),        *)
(* strip(), split(), substring tests and the command regular expressions   *)
(* are computed character by character.                                    *)
(***************************************************************************)
EXTENDS Integers, Sequences, FiniteSets, TLC

VARIABLES
    heap,    \* Entity objects: id -> [text, entity_type, occurrences, mentions]
    kg,      \* the KnowledgeGraph: entities (text -> id) with the dict's key order,
             \* relations, and graph (nodes, their attributes, edges; in insertion order)
    kg2,     \* a second KnowledgeGraph, the one snapshots are loaded into
    file,    \* the snapshot file written by save / export and read by load
    ingested,\* the callers' Entity objects the ingestion loop has added
    mode,    \* "build" while the graph is ingested, "query" once it is queried
    result,  \* what the last query-phase call returned
    cache,   \* the Cache: memory (the OrderedDict, oldest first) and disk (file -> value)
    hist,    \* history of the direct calls since the cache was last empty: keys by
             \* last access, keys set, whether a disk operation failed
    job,     \* the extract call in progress and the state of its worker tasks
    xres,    \* what the last extract call returned or raised
    store,   \* a Cache over a directory that outlives it: memory, disk, the files
             \* by modification time (oldest first), the last call and whether it
             \* logged a failure
    op       \* the last direct call on the Cache: what it was given, what it
             \* returned, the keys by last access, the unsaved entries

graphVars == <<heap, kg, kg2, file, ingested, mode, result>>
cacheVars == <<cache, hist>>
extractVars == <<job, xres>>
storeVars == <<store, op>>
vars == <<graphVars, cacheVars, extractVars, storeVars>>

-----------------------------------------------------------------------------
(* Bounds of the model *)

\* longest relation list the model builds
MaxRel == 3
\* largest sum of the stored entities' occurrence counters
MaxOcc == 4

-----------------------------------------------------------------------------
(* Strings *)

UpperChars == <<"A","B","C","D","E","F","G","H","I","J","K","L","M",
                "N","O","P","Q","R","S","T","U","V","W","X","Y","Z">>
LowerChars == <<"a","b","c","d","e","f","g","h","i","j","k","l","m",
                "n","o","p","q","r","s","t","u","v","w","x","y","z">>

\* str.lower() on one character
LowerChar(c) ==
    IF \E i \in 1..Len(UpperChars) : UpperChars[i] = c
    THEN LowerChars[CHOOSE i \in 1..Len(UpperChars) : UpperChars[i] = c]
    ELSE c

\* str.lower()
Lower(s) == [i \in 1..Len(s) |-> LowerChar(s[i])]

IsSpace(c) == c = " "

\* str.strip(): leading and trailing whitespace removed
Strip(s) ==
    IF \A i \in 1..Len(s) : IsSpace(s[i]) THEN << >>
    ELSE LET first == CHOOSE i \in 1..Len(s) :
                          /\ ~IsSpace(s[i])
                          /\ \A j \in 1..(i-1) : IsSpace(s[j])
             last  == CHOOSE i \in 1..Len(s) :
                          /\ ~IsSpace(s[i])
                          /\ \A j \in (i+1)..Len(s) : IsSpace(s[j])
         IN  SubSeq(s, first, last)

\* needle in hay (Python's substring test)
Contains(hay, needle) ==
    \E i \in 1..(Len(hay) - Len(needle) + 1) :
        SubSeq(hay, i, i + Len(needle) - 1) = needle

Range(f) == {f[i] : i \in DOMAIN f}

\* list(a_set): the members in some order
RECURSIVE SetToList(_)
SetToList(S) ==
    IF S = {} THEN << >>
    ELSE LET x == CHOOSE y \in S : TRUE
         IN  <<x>> \o SetToList(S \ {x})

-----------------------------------------------------------------------------
(* Entity (extractor/entity_extractor.py) *)

\* Entity.__init__
NewEntity(text, entity_type) ==
    [text |-> text, entity_type |-> entity_type,
     occurrences |-> 1, mentions |-> {text}]

\* Entity.to_dict
EntityToDict(e) ==
    [text |-> e.text, entity_type |-> e.entity_type,
     occurrences |-> e.occurrences, mentions |-> SetToList(e.mentions)]

\* update that leaves the counter as it is
EntityUpdateMentionsOnly(self, other) ==
    [self EXCEPT !.mentions = self.mentions \cup other.mentions]

\* Entity.update: other's fields are read before self is written, so that
\* self.update(self) doubles the counter
EntityUpdate(self, other) ==
    [self EXCEPT !.occurrences = self.occurrences + other.occurrences,
                 !.mentions = self.mentions \cup other.mentions]

-----------------------------------------------------------------------------
(* The objects the callers hold *)

tA == <<"A">>
ta == <<"a">>
tB == <<"B">>

\* entity types (spaCy labels) and relation types
ORG == <<"O","R","G">>
PERSON == <<"P","E","R","S","O","N">>
r1 == <<"r","1">>
r2 == <<"r","2">>

\* Entity objects constructed by the callers: two fresh entities whose
\* texts differ only by case, a third one, and a resolver output carrying
\* the text of the first with two merged mentions
PoolEntities ==
    <<NewEntity(tA, ORG),
      NewEntity(ta, PERSON),
      NewEntity(tB, ORG),
      [text |-> tA, entity_type |-> PERSON, occurrences |-> 2, mentions |-> {tA, ta}]>>

Pool == DOMAIN PoolEntities

\* Relation objects constructed by the callers (Relation.__init__): source
\* and target are references to Entity objects
PoolRelations ==
    { [source |-> 1, relation_type |-> r1, target |-> 2, sentence |-> "s1"],
      [source |-> 2, relation_type |-> r1, target |-> 3, sentence |-> "s1"],
      [source |-> 1, relation_type |-> r2, target |-> 3, sentence |-> "s2"],
      [source |-> 4, relation_type |-> r1, target |-> 3, sentence |-> "s1"] }

\* Relation.to_dict
RelationToDict(h, r) ==
    [source |-> h[r.source].text, relation_type |-> r.relation_type,
     target |-> h[r.target].text, sentence |-> r.sentence]

-----------------------------------------------------------------------------
(* KnowledgeGraph (graph/knowledge_graph.py) *)

InSeq(x, s) == \E i \in 1..Len(s) : s[i] = x

\* KnowledgeGraph.__init__
EmptyGraph ==
    [entities |-> << >>, entityOrder |-> << >>, relations |-> << >>,
     nodes |-> << >>, nodeAttrs |-> << >>, edges |-> << >>]

\* nx.DiGraph.add_node(n): the node is created when new
GraphAddNode(ns, n) == IF InSeq(n, ns) THEN ns ELSE Append(ns, n)

HasEdge(es, u, v) == \E i \in 1..Len(es) : es[i].source = u /\ es[i].target = v

\* nx.DiGraph.get_edge_data(u, v)
EdgeData(es, u, v) ==
    es[CHOOSE i \in 1..Len(es) : es[i].source = u /\ es[i].target = v]

\* add_edge leaving an existing edge as it is
GraphAddEdgeOnce(es, u, v, rt, sent) ==
    IF HasEdge(es, u, v) THEN es
    ELSE Append(es, [source |-> u, target |-> v, relation_type |-> rt, sentence |-> sent])

\* nx.DiGraph.add_edge(u, v, **attrs): an existing edge keeps its place and
\* has its attributes overwritten
GraphAddEdge(es, u, v, rt, sent) ==
    LET e == [source |-> u, target |-> v, relation_type |-> rt, sentence |-> sent]
    IN  IF HasEdge(es, u, v)
        THEN [i \in 1..Len(es) |->
                 IF es[i].source = u /\ es[i].target = v THEN e ELSE es[i]]
        ELSE Append(es, e)

\* add_entity storing the entity it is given in place of the one it holds
add_entity_last_wins(h, g, id) ==
    LET e == h[id]
        t == e.text
    IN  [heap |-> h,
         kg |-> [g EXCEPT !.entities = (t :> id) @@ g.entities,
                          !.entityOrder = IF t \in DOMAIN g.entities
                                          THEN g.entityOrder
                                          ELSE Append(g.entityOrder, t),
                          !.nodes = GraphAddNode(g.nodes, t),
                          !.nodeAttrs = (t :> EntityToDict(e)) @@ g.nodeAttrs]]

\* KnowledgeGraph.add_entity, on heap h and graph g: the new heap and graph
add_entity(h, g, id) ==
    LET e == h[id]
        t == e.text
    IN  IF t \notin DOMAIN g.entities
        THEN [heap |-> h,
              kg |-> [g EXCEPT !.entities = (t :> id) @@ g.entities,
                               !.entityOrder = Append(g.entityOrder, t),
                               !.nodes = GraphAddNode(g.nodes, t),
                               !.nodeAttrs = (t :> EntityToDict(e)) @@ g.nodeAttrs]]
        ELSE LET sid == g.entities[t]
                 merged == EntityUpdate(h[sid], e)
             IN  [heap |-> [h EXCEPT ![sid] = merged],
                  kg |-> [g EXCEPT !.nodeAttrs =
                                      (t :> EntityToDict(merged)) @@ g.nodeAttrs]]

\* KnowledgeGraph.add_relation
add_relation(h, g, r) ==
    LET u == h[r.source].text
        v == h[r.target].text
    IN  [g EXCEPT !.relations = Append(g.relations, r),
                  !.nodes = GraphAddNode(GraphAddNode(g.nodes, u), v),
                  !.edges = GraphAddEdge(g.edges, u, v, r.relation_type, r.sentence)]

RECURSIVE SumOcc(_, _, _)
SumOcc(h, ents, keys) ==
    IF keys = {} THEN 0
    ELSE LET k == CHOOSE x \in keys : TRUE
         IN  h[ents[k]].occurrences + SumOcc(h, ents, keys \ {k})

\* the sum of the stored entities' occurrence counters
TotalOcc(h, g) == SumOcc(h, g.entities, DOMAIN g.entities)

\* what dict.get returns for a missing key, among object ids
NoEntity == 0

\* KnowledgeGraph.get_entity: the stored object's id, or None
get_entity(g, text) == IF text \in DOMAIN g.entities THEN g.entities[text] ELSE NoEntity

\* nx.DiGraph.out_edges(n, data=True) / in_edges(n, data=True)
OutEdges(es, n) == SelectSeq(es, LAMBDA e : e.source = n)
InEdges(es, n) == SelectSeq(es, LAMBDA e : e.target = n)

\* KnowledgeGraph.get_relations raises when networkx is asked for the edges
\* of a key that is no node
get_relations_raises(g, text) ==
    text \in DOMAIN g.entities /\ ~InSeq(text, g.nodes)

\* KnowledgeGraph.get_relations
get_relations(g, text) ==
    IF text \notin DOMAIN g.entities THEN << >>
    ELSE LET outs == OutEdges(g.edges, text)
             ins  == InEdges(g.edges, text)
         IN  [i \in 1..Len(outs) |->
                 [direction |-> "outgoing", relation_type |-> outs[i].relation_type,
                  entity |-> outs[i].target, sentence |-> outs[i].sentence]]
             \o
             [i \in 1..Len(ins) |->
                 [direction |-> "incoming", relation_type |-> ins[i].relation_type,
                  entity |-> ins[i].source, sentence |-> ins[i].sentence]]

\* the neighbours of n not yet reached, in adjacency order
RECURSIVE NewNeighbours(_, _, _)
NewNeighbours(outs, seen, acc) ==
    IF outs = << >> THEN acc
    ELSE LET t == Head(outs).target
         IN  IF t \in seen \/ InSeq(t, acc)
             THEN NewNeighbours(Tail(outs), seen, acc)
             ELSE NewNeighbours(Tail(outs), seen, Append(acc, t))

\* breadth-first search from the head of the queue: the predecessor of every
\* node reached
RECURSIVE BFS(_, _, _)
BFS(es, queue, pred) ==
    IF queue = << >> THEN pred
    ELSE LET n == Head(queue)
             new == NewNeighbours(OutEdges(es, n), DOMAIN pred, << >>)
         IN  BFS(es, Tail(queue) \o new,
                 [x \in Range(new) |-> n] @@ pred)

RECURSIVE PathBack(_, _, _)
PathBack(pred, s, n) ==
    IF n = s THEN <<s>> ELSE Append(PathBack(pred, s, pred[n]), n)

\* nx.shortest_path(G, source, target): the node list of a shortest path by
\* edge count; NodeNotFound when an endpoint is no node, NetworkXNoPath when
\* the target is not reached
shortest_path(g, source, target) ==
    IF ~InSeq(source, g.nodes) \/ ~InSeq(target, g.nodes)
    THEN [raised |-> "NodeNotFound"]
    ELSE LET pred == BFS(g.edges, <<source>>, (source :> source))
         IN  IF target \notin DOMAIN pred
             THEN [raised |-> "NetworkXNoPath"]
             ELSE [raised |-> "", path |-> PathBack(pred, source, target)]

\* get_path with the step loop one short: range(len(path) - 2)
get_path_one_short(g, source, target) ==
    LET sp == shortest_path(g, source, target)
    IN  IF sp.raised # "" THEN << >>
        ELSE [i \in 1..(Len(sp.path) - 2) |->
                LET d == EdgeData(g.edges, sp.path[i], sp.path[i+1])
                IN  [source |-> sp.path[i], target |-> sp.path[i+1],
                     relation_type |-> d.relation_type, sentence |-> d.sentence]]

\* KnowledgeGraph.get_path
get_path(g, source, target) ==
    LET sp == shortest_path(g, source, target)
    IN  IF sp.raised # "" THEN << >>
        ELSE [i \in 1..(Len(sp.path) - 1) |->
                LET d == EdgeData(g.edges, sp.path[i], sp.path[i+1])
                IN  [source |-> sp.path[i], target |-> sp.path[i+1],
                     relation_type |-> d.relation_type, sentence |-> d.sentence]]

\* KnowledgeGraph.to_dict (what to_json writes and json.load reads back)
to_dict(h, g) ==
    [entities |-> [i \in 1..Len(g.entityOrder) |->
                      EntityToDict(h[g.entities[g.entityOrder[i]]])],
     relations |-> [i \in 1..Len(g.relations) |-> RelationToDict(h, g.relations[i])]]

\* dict.get(key, default) on a record of the file
GetOr(rec, key, default) == IF key \in DOMAIN rec THEN rec[key] ELSE default

\* KnowledgeGraph.load, the entity loop: the Entity built from record i of
\* the file is a new object; a record without "text" or "entity_type"
\* raises KeyError, and the entities added before it stay
RECURSIVE LoadEntities(_, _, _, _)
LoadEntities(h, g, recs, i) ==
    IF i > Len(recs) THEN [heap |-> h, kg |-> g, raised |-> ""]
    ELSE IF ~({"text", "entity_type"} \subseteq DOMAIN recs[i])
    THEN [heap |-> h, kg |-> g, raised |-> "KeyError"]
    ELSE LET id == Len(PoolEntities) + i
             e  == [NewEntity(recs[i].text, recs[i].entity_type) EXCEPT
                       !.occurrences = GetOr(recs[i], "occurrences", 1),
                       !.mentions = Range(GetOr(recs[i], "mentions", <<recs[i].text>>))]
             w  == add_entity((id :> e) @@ h, g, id)
         IN  LoadEntities(w.heap, w.kg, recs, i + 1)

\* KnowledgeGraph.load, the relation loop: a record without "source" or
\* "target", or one whose endpoints are found and that has no
\* "relation_type", raises KeyError, and the relations added before it stay
RECURSIVE LoadRelations(_, _, _, _)
LoadRelations(h, g, recs, i) ==
    IF i > Len(recs) THEN [kg |-> g, raised |-> ""]
    ELSE IF ~({"source", "target"} \subseteq DOMAIN recs[i])
    THEN [kg |-> g, raised |-> "KeyError"]
    ELSE LET source == get_entity(g, recs[i].source)
             target == get_entity(g, recs[i].target)
         IN  IF source # NoEntity /\ target # NoEntity
             THEN IF "relation_type" \notin DOMAIN recs[i]
                  THEN [kg |-> g, raised |-> "KeyError"]
                  ELSE LoadRelations(h,
                           add_relation(h, g,
                               [source |-> source, relation_type |-> recs[i].relation_type,
                                target |-> target,
                                sentence |-> GetOr(recs[i], "sentence", "")]),
                           recs, i + 1)
             ELSE LoadRelations(h, g, recs, i + 1)

\* KnowledgeGraph.load of parsed data: the store is cleared, then the
\* entities and the relations are replayed; the objects of the store that
\* was cleared are freed.  What was added when a record raises stays
load(h, data) ==
    LET callers == [id \in Pool |-> h[id]]
        w == LoadEntities(callers, EmptyGraph, GetOr(data, "entities", << >>), 1)
        v == LoadRelations(w.heap, w.kg, GetOr(data, "relations", << >>), 1)
    IN  IF w.raised # "" THEN w
        ELSE [heap |-> w.heap, kg |-> v.kg, raised |-> v.raised]

\* what a file holds that json.load cannot parse
NotJson == [not_json |-> TRUE]

\* KnowledgeGraph.load(filename) on the store g: open() raises when there is
\* no file and json.load when the content is no JSON, both before the
\* store is touched
load_file(h, g, f) ==
    IF ~f.exists THEN [heap |-> h, kg |-> g, raised |-> "FileNotFoundError"]
    ELSE IF f.data = NotJson
    THEN [heap |-> h, kg |-> g, raised |-> "JSONDecodeError"]
    ELSE load(h, f.data)

\* nx.DiGraph.degree(n): the edges into n plus the edges out of n
Degree(es, n) == Len(OutEdges(es, n)) + Len(InEdges(es, n))

\* degrees.sort(key=lambda x: x[1], reverse=True): a stable sort, so nodes
\* of equal degree keep the order they have in nodes
RECURSIVE SortByDegree(_, _)
SortByDegree(es, nodes) ==
    IF nodes = << >> THEN << >>
    ELSE LET i == CHOOSE k \in 1..Len(nodes) :
                      /\ \A j \in 1..Len(nodes) : Degree(es, nodes[j]) <= Degree(es, nodes[k])
                      /\ \A j \in 1..(k-1) : Degree(es, nodes[j]) < Degree(es, nodes[k])
         IN  <<nodes[i]>> \o
             SortByDegree(es, SubSeq(nodes, 1, i-1) \o SubSeq(nodes, i+1, Len(nodes)))

\* KnowledgeGraph._get_most_connected: the first limit nodes by degree, and
\* of these the ones get_entity finds
get_most_connected(h, g, limit) ==
    LET sorted == SortByDegree(g.edges, g.nodes)
        top == SubSeq(sorted, 1, IF Len(sorted) < limit THEN Len(sorted) ELSE limit)
        kept == SelectSeq(top, LAMBDA n : get_entity(g, n) # NoEntity)
    IN  [i \in 1..Len(kept) |->
            [entity |-> kept[i],
             type |-> h[get_entity(g, kept[i])].entity_type,
             connections |-> Degree(g.edges, kept[i])]]

-----------------------------------------------------------------------------
(* QueryEngine (graph/query_engine.py) *)

\* a Python None where a dict is expected
None == [none |-> TRUE]

Response(success, message, data) ==
    [success |-> success, message |-> message, data |-> data]

\* an f-string: its template and the values formatted into it
Fmt(template, args) == [template |-> template, args |-> args]

\* the end of the whitespace run that starts at q[i]
SpaceRunEnd(q, i) ==
    CHOOSE m \in i..Len(q) :
        /\ \A k \in i..m : IsSpace(q[k])
        /\ m = Len(q) \/ ~IsSpace(q[m+1])

\* the literal word w at q[i..], ignoring case (re.IGNORECASE)
WordAt(q, i, w) ==
    /\ i + Len(w) - 1 <= Len(q)
    /\ Lower(SubSeq(q, i, i + Len(w) - 1)) = w

\* ^word\s+(.+)$ : the group is what follows the whitespace run
MatchCommand(q, w) ==
    LET n == Len(w)
    IN  IF /\ WordAt(q, 1, w)
           /\ Len(q) > n + 1
           /\ IsSpace(q[n+1])
           /\ SpaceRunEnd(q, n+1) < Len(q)
        THEN [matched |-> TRUE,
              group |-> SubSeq(q, SpaceRunEnd(q, n+1) + 1, Len(q))]
        ELSE [matched |-> FALSE]

\* ^path\s+from\s+(.+)\s+to\s+(.+)$ : every way to place the first group at
\* q[a..j] so that the rest of the pattern matches what follows
PathSplits(q) ==
    IF ~(WordAt(q, 1, <<"p","a","t","h">>) /\ Len(q) > 5 /\ IsSpace(q[5])) THEN {}
    ELSE LET f == SpaceRunEnd(q, 5) + 1
             fe == f + 3
         IN  IF ~(WordAt(q, f, <<"f","r","o","m">>) /\ Len(q) > fe + 1 /\ IsSpace(q[fe+1]))
             THEN {}
             ELSE { s \in ((fe+2)..(SpaceRunEnd(q, fe+1) + 1)) \X ((fe+2)..Len(q)) :
                      LET a == s[1]
                          j == s[2]
                      IN  /\ a <= j
                          /\ j + 1 <= Len(q)
                          /\ IsSpace(q[j+1])
                          /\ LET m == SpaceRunEnd(q, j+1)
                             IN  /\ WordAt(q, m+1, <<"t","o">>)
                                 /\ m + 3 <= Len(q)
                                 /\ IsSpace(q[m+3])
                                 /\ SpaceRunEnd(q, m+3) < Len(q) }

\* the match the regex engine finds: \s+ and (.+) are greedy, so the first
\* group starts as late and ends as late as a match allows
MatchPath(q) ==
    LET splits == PathSplits(q)
    IN  IF splits = {} THEN [matched |-> FALSE]
        ELSE LET b == CHOOSE s \in splits :
                          \A t \in splits :
                              t[1] < s[1] \/ (t[1] = s[1] /\ t[2] <= s[2])
                 m == SpaceRunEnd(q, b[2] + 1)
             IN  [matched |-> TRUE,
                  source |-> SubSeq(q, b[1], b[2]),
                  target |-> SubSeq(q, SpaceRunEnd(q, m+3) + 1, Len(q))]

\* str.split(): the maximal runs of non-whitespace characters
RECURSIVE Split(_)
Split(q) ==
    IF q = << >> THEN << >>
    ELSE IF IsSpace(q[1]) THEN Split(Tail(q))
    ELSE LET e == CHOOSE m \in 1..Len(q) :
                      /\ \A k \in 1..m : ~IsSpace(q[k])
                      /\ m = Len(q) \/ IsSpace(q[m+1])
         IN  <<SubSeq(q, 1, e)>> \o Split(SubSeq(q, e+1, Len(q)))

\* " ".join(words)
RECURSIVE Join(_)
Join(words) ==
    IF words = << >> THEN << >>
    ELSE IF Len(words) = 1 THEN words[1]
    ELSE words[1] \o <<" ">> \o Join(Tail(words))

\* _handle_find taking the first key that matches ignoring case, without the
\* exact lookup
handle_find_first_match(h, g, entity_name) ==
    LET hits == SelectSeq(g.entityOrder, LAMBDA name : Lower(name) = Lower(entity_name))
    IN  IF hits # << >>
        THEN LET e == h[g.entities[hits[1]]]
             IN  Response(TRUE, Fmt("Found entity: {}", <<e.text>>),
                          [entity |-> EntityToDict(e),
                           relations |-> get_relations(g, e.text)])
        ELSE Response(FALSE, Fmt("Entity '{}' not found.", <<entity_name>>), None)

\* QueryEngine._handle_find
handle_find(h, g, entity_name) ==
    LET exact == get_entity(g, entity_name)
        hits == SelectSeq(g.entityOrder, LAMBDA name : Lower(name) = Lower(entity_name))
        entity == IF exact # NoEntity THEN exact
                  ELSE IF hits # << >> THEN g.entities[hits[1]]
                  ELSE NoEntity
    IN  IF entity # NoEntity
        THEN IF get_relations_raises(g, h[entity].text)
             THEN [raised |-> "NetworkXError"]
             ELSE Response(TRUE, Fmt("Found entity: {}", <<h[entity].text>>),
                           [entity |-> EntityToDict(h[entity]),
                            relations |-> get_relations(g, h[entity].text)])
        ELSE Response(FALSE, Fmt("Entity '{}' not found.", <<entity_name>>), None)

\* QueryEngine._handle_path
handle_path(h, g, source, target) ==
    LET source_entity == get_entity(g, source)
        target_entity == get_entity(g, target)
    IN  IF source_entity = NoEntity
        THEN Response(FALSE, Fmt("Source entity '{}' not found.", <<source>>), None)
        ELSE IF target_entity = NoEntity
        THEN Response(FALSE, Fmt("Target entity '{}' not found.", <<target>>), None)
        ELSE LET path == get_path(g, h[source_entity].text, h[target_entity].text)
             IN  IF path # << >>
                 THEN Response(TRUE, Fmt("Found path from '{}' to '{}'", <<source, target>>),
                               [path |-> path, length |-> Len(path)])
                 ELSE Response(FALSE, Fmt("No path found from '{}' to '{}'.", <<source, target>>),
                               None)

\* QueryEngine._handle_related, the inner loop for one direct relation
SimilarVia(g, text, rel) ==
    LET other_relations == get_relations(g, rel.entity)
        shared == SelectSeq(other_relations,
                      LAMBDA o : o.entity # text /\ o.relation_type = rel.relation_type)
    IN  [i \in 1..Len(shared) |->
            [entity |-> shared[i].entity,
             shared_relation_type |-> rel.relation_type,
             via |-> rel.entity]]

\* QueryEngine._handle_related, the outer loop
RECURSIVE SimilarEntities(_, _, _)
SimilarEntities(g, text, rels) ==
    IF rels = << >> THEN << >>
    ELSE SimilarVia(g, text, Head(rels)) \o SimilarEntities(g, text, Tail(rels))

\* a_list[:n]
Take(s, n) == SubSeq(s, 1, IF Len(s) < n THEN Len(s) ELSE n)

\* the cap on the similar entities of a 'related' response
SimilarLimit == 5

\* _handle_related returning every similar entity it found
handle_related_uncapped(h, g, entity_name) ==
    LET entity == get_entity(g, entity_name)
    IN  IF entity = NoEntity
        THEN Response(FALSE, Fmt("Entity '{}' not found.", <<entity_name>>), None)
        ELSE LET text == h[entity].text
                 direct_relations == get_relations(g, text)
             IN  Response(TRUE, Fmt("Found related entities for '{}'", <<entity_name>>),
                          [direct_relations |-> direct_relations,
                           similar_entities |-> SimilarEntities(g, text, direct_relations)])

\* QueryEngine._handle_related
handle_related(h, g, entity_name) ==
    LET entity == get_entity(g, entity_name)
    IN  IF entity = NoEntity
        THEN Response(FALSE, Fmt("Entity '{}' not found.", <<entity_name>>), None)
        ELSE IF get_relations_raises(g, h[entity].text)
        THEN [raised |-> "NetworkXError"]
        ELSE LET text == h[entity].text
                 direct_relations == get_relations(g, text)
             IN  Response(TRUE, Fmt("Found related entities for '{}'", <<entity_name>>),
                          [direct_relations |-> direct_relations,
                           similar_entities |->
                               Take(SimilarEntities(g, text, direct_relations), SimilarLimit)])

\* the number of times every member of keys occurs in it
CountBy(keys) ==
    [k \in Range(keys) |-> Cardinality({i \in 1..Len(keys) : keys[i] = k})]

\* _count_entity_types adding each entity's occurrences instead of 1
count_entity_types_by_occurrences(h, g) ==
    [k \in {h[g.entities[t]].entity_type : t \in DOMAIN g.entities} |->
        SumOcc(h, g.entities,
               {t \in DOMAIN g.entities : h[g.entities[t]].entity_type = k})]

\* KnowledgeGraph._count_entity_types
count_entity_types(h, g) ==
    CountBy([i \in 1..Len(g.entityOrder) |-> h[g.entities[g.entityOrder[i]]].entity_type])

\* KnowledgeGraph._count_relation_types
count_relation_types(g) ==
    CountBy([i \in 1..Len(g.relations) |-> g.relations[i].relation_type])

\* KnowledgeGraph.get_summary
get_summary(h, g) ==
    [num_entities |-> Len(g.entityOrder),
     num_relations |-> Len(g.relations),
     entity_types |-> count_entity_types(h, g),
     relation_types |-> count_relation_types(g),
     most_connected |-> get_most_connected(h, g, 5)]

\* sum(counts.values())
RECURSIVE SumValues(_, _)
SumValues(counts, keys) ==
    IF keys = {} THEN 0
    ELSE LET k == CHOOSE x \in keys : TRUE
         IN  counts[k] + SumValues(counts, keys \ {k})

\* QueryEngine._handle_count
handle_count(h, g, entity_type) ==
    LET counts ==
            IF Lower(entity_type) = <<"e","n","t","i","t","i","e","s">>
            THEN count_entity_types(h, g)
            ELSE IF Lower(entity_type) = <<"r","e","l","a","t","i","o","n","s">>
            THEN count_relation_types(g)
            ELSE (entity_type :>
                     Cardinality({t \in DOMAIN g.entities :
                         Lower(h[g.entities[t]].entity_type) = Lower(entity_type)}))
    IN  Response(TRUE, Fmt("Count for {}", <<entity_type>>),
                 [counts |-> counts, total |-> SumValues(counts, DOMAIN counts)])

\* _handle_export without its try / except
handle_export_uncaught(filename, ok) ==
    IF ok
    THEN Response(TRUE, Fmt("Knowledge graph exported to {}", <<filename>>), None)
    ELSE [raised |-> "OSError"]

\* QueryEngine._handle_export: ok is whether kg.save could write the file
handle_export(filename, ok) ==
    IF ok
    THEN Response(TRUE, Fmt("Knowledge graph exported to {}", <<filename>>), None)
    ELSE Response(FALSE, Fmt("Error exporting knowledge graph: {}", <<"OSError">>), None)

\* QueryEngine._handle_help
handle_help ==
    Response(TRUE, Fmt("Available commands:", << >>),
             [commands |-> <<"find <entity>", "path from <entity1> to <entity2>",
                             "related <entity>", "count entities", "count relations",
                             "export <filename>", "help", "exit">>])

\* whether execute_query dispatches the query to _handle_export
IsExport(query) ==
    LET q == Strip(query)
    IN  /\ ~MatchCommand(q, <<"f","i","n","d">>).matched
        /\ ~MatchPath(q).matched
        /\ ~MatchCommand(q, <<"r","e","l","a","t","e","d">>).matched
        /\ ~MatchCommand(q, <<"c","o","u","n","t">>).matched
        /\ MatchCommand(q, <<"e","x","p","o","r","t">>).matched

\* QueryEngine.execute_query: the patterns are tried in the order find,
\* path, related, count, export, help
execute_query(h, g, query, ok) ==
    LET q == Strip(query)
        find == MatchCommand(q, <<"f","i","n","d">>)
        path == MatchPath(q)
        related == MatchCommand(q, <<"r","e","l","a","t","e","d">>)
        count == MatchCommand(q, <<"c","o","u","n","t">>)
        export == MatchCommand(q, <<"e","x","p","o","r","t">>)
        words == Split(q)
        potential_entity == IF Len(words) > 1 THEN Join(Tail(words)) ELSE << >>
    IN  IF find.matched THEN handle_find(h, g, find.group)
        ELSE IF path.matched THEN handle_path(h, g, path.source, path.target)
        ELSE IF related.matched THEN handle_related(h, g, related.group)
        ELSE IF count.matched THEN handle_count(h, g, count.group)
        ELSE IF export.matched THEN handle_export(export.group, ok)
        ELSE IF Lower(q) = <<"h","e","l","p">> THEN handle_help
        ELSE IF /\ \/ Contains(Lower(q), <<"f","i","n","d">>)
                   \/ Contains(Lower(q), <<"s","h","o","w">>)
                /\ potential_entity # << >>
        THEN handle_find(h, g, potential_entity)
        ELSE Response(FALSE,
                      Fmt("I don't understand that query. Try 'help' for a list of commands.",
                          << >>),
                      None)

-----------------------------------------------------------------------------
(* Calls of the store's API in any order, as the tests and library users   *)
(* make them, while the graph is built                                      *)

AddEntity ==
    \E id \in Pool :
        LET w == add_entity(heap, kg, id)
        IN  /\ mode = "build"
            /\ TotalOcc(w.heap, w.kg) <= MaxOcc
            /\ heap' = w.heap
            /\ kg' = w.kg
            /\ UNCHANGED <<kg2, file, ingested, mode, result, cacheVars, extractVars, storeVars>>

AddRelation ==
    \E r \in PoolRelations :
        /\ mode = "build"
        /\ Len(kg.relations) < MaxRel
        /\ kg' = add_relation(heap, kg, r)
        /\ UNCHANGED <<heap, kg2, file, ingested, mode, result, cacheVars, extractVars, storeVars>>

-----------------------------------------------------------------------------
(* The ingestion loops of cli.py process and server/api.py process_text:    *)
(* every extracted Entity is added once, and every Relation, whose          *)
(* endpoints are among those entities, is added once                        *)

IngestEntity ==
    \E id \in Pool \ ingested :
        LET w == add_entity(heap, kg, id)
        IN  /\ mode = "build"
            /\ TotalOcc(w.heap, w.kg) <= MaxOcc
            /\ heap' = w.heap
            /\ kg' = w.kg
            /\ ingested' = ingested \cup {id}
            /\ UNCHANGED <<kg2, file, mode, result, cacheVars, extractVars, storeVars>>

IngestRelation ==
    \E r \in PoolRelations :
        /\ mode = "build"
        /\ ~InSeq(r, kg.relations)
        /\ {r.source, r.target} \subseteq ingested
        /\ Len(kg.relations) < MaxRel
        /\ kg' = add_relation(heap, kg, r)
        /\ UNCHANGED <<heap, kg2, file, ingested, mode, result, cacheVars, extractVars, storeVars>>

-----------------------------------------------------------------------------

NoFile == [exists |-> FALSE]
NoResult == [call |-> "none"]
\* a Cache constructed over an empty directory, before any call
EmptyCache == [memory |-> << >>, disk |-> << >>]
NoHistory == [recency |-> << >>, setKeys |-> {}, setAgain |-> FALSE, ioFailed |-> FALSE]
NoJob == [kind |-> "none"]
\* a Cache constructed over an empty directory, with the files' order
EmptyStore == [memory |-> << >>, disk |-> << >>, mtime |-> << >>,
               call |-> "__init__", logged |-> FALSE]
\* before any call on the Cache
Constructed == [call |-> "__init__", key |-> <<"none">>, value |-> [none |-> TRUE],
                recency |-> << >>, unsaved |-> {}]
NoExtract == [call |-> "none"]

\* KnowledgeGraph.__init__, and the callers' objects
Init ==
    /\ heap = PoolEntities
    /\ kg = EmptyGraph
    /\ kg2 = EmptyGraph
    /\ file = NoFile
    /\ ingested = {}
    /\ mode = "build"
    /\ result = NoResult
    /\ cache = EmptyCache
    /\ hist = NoHistory
    /\ job = NoJob
    /\ xres = NoExtract
    /\ store = EmptyStore
    /\ op = Constructed

\* KnowledgeGraph.save(filename) once the graph is built (cli.py process):
\* open() may fail, and then save raises and writes nothing
Save ==
    \E ok \in BOOLEAN :
        /\ file' = IF ok THEN [exists |-> TRUE, data |-> to_dict(heap, kg)] ELSE file
        /\ mode' = "query"
        /\ UNCHANGED <<heap, kg, kg2, ingested, result, cacheVars, extractVars, storeVars>>

\* kg2.load(filename): open() raises when there is no file, before the
\* store is touched
Load ==
    /\ LET w == load_file(heap, kg2, file)
       IN  heap' = w.heap /\ kg2' = w.kg
    /\ mode' = "query"
    /\ UNCHANGED <<kg, file, ingested, result, cacheVars, extractVars, storeVars>>

\* files that were not written by save: a snapshot with optional fields
\* left out and a relation to an entity it does not hold, one with an entity
\* record without its type, one with a relation record without its type,
\* and a file that is no JSON
Snapshots ==
    LET B == [text |-> tB, entity_type |-> ORG]
        a == [text |-> ta, entity_type |-> PERSON, occurrences |-> 2, mentions |-> <<ta, tA>>]
    IN  { [entities |-> <<B, a>>,
           relations |-> <<[source |-> tB, relation_type |-> r1, target |-> ta],
                           [source |-> tB, relation_type |-> r2, target |-> tA,
                            sentence |-> "s2"]>>],
          [entities |-> <<B, [text |-> ta]>>, relations |-> << >>],
          [entities |-> <<B, a>>,
           relations |-> <<[source |-> ta, relation_type |-> r1, target |-> tB,
                            sentence |-> "s1"],
                           [source |-> tB, target |-> ta, sentence |-> "s2"]>>],
          NotJson }

\* another program writes the snapshot file
WriteSnapshot ==
    \E data \in Snapshots :
        /\ file' = [exists |-> TRUE, data |-> data]
        /\ mode' = "query"
        /\ UNCHANGED <<heap, kg, kg2, ingested, result, cacheVars, extractVars, storeVars>>

\* kg2.load(filename) of whatever the file holds, with what the caller sees
\* of it: the exception raised, the file as it was read, and the store as
\* it was before the call
LoadSnapshot ==
    LET w == load_file(heap, kg2, file)
    IN  /\ heap' = w.heap
        /\ kg2' = w.kg
        /\ result' = [call |-> "load", raised |-> w.raised, loaded |-> file,
                      before |-> [store |-> to_dict(heap, kg2), edges |-> kg2.edges]]
        /\ mode' = "query"
        /\ UNCHANGED <<kg, file, ingested, cacheVars, extractVars, storeVars>>

\* the commands the users type
Queries ==
    { <<"f","i","n","d"," ","A">>,
      <<"f","i","n","d"," ","a">>,
      <<"f","i","n","d"," ","C">>,
      <<"p","a","t","h"," ","f","r","o","m"," ","A"," ","t","o"," ","B">>,
      <<"p","a","t","h"," ","f","r","o","m"," ","a"," ","t","o"," ","B">>,
      <<"p","a","t","h"," ","f","r","o","m"," ","C"," ","t","o"," ","B">>,
      <<"p","a","t","h"," ","f","r","o","m"," ","A"," ","t","o"," ","C">>,
      <<"p","a","t","h"," ","f","r","o","m"," ","A"," ","t","o"," ","A">>,
      <<"r","e","l","a","t","e","d"," ","A">>,
      <<"r","e","l","a","t","e","d"," ","C">>,
      <<"c","o","u","n","t"," ","e","n","t","i","t","i","e","s">>,
      <<"C","o","u","n","t"," ","R","e","l","a","t","i","o","n","s">>,
      <<"c","o","u","n","t"," ","o","r","g">>,
      <<"e","x","p","o","r","t"," ","f">>,
      <<" "," ","h","e","l","p"," ">>,
      <<"s","h","o","w"," ","a">>,
      <<"A"," ","s","h","o","w">>,
      <<"p","a","t","h","f","i","n","d","e","r"," ","B">>,
      <<"f","i","n","d">>,
      <<"h","e","l","l","o"," ","A">> }

\* the interactive loop with a lookup that stores the entity it was asked
\* for once more
ExecuteQueryStoring ==
    \E q \in Queries, id \in Pool :
        LET w == add_entity(heap, kg, id)
        IN  /\ result = NoResult
            /\ result' = [call |-> "execute_query", query |-> q, io |-> TRUE,
                          response |-> execute_query(w.heap, w.kg, q, TRUE)]
            /\ heap' = w.heap
            /\ kg' = w.kg
            /\ mode' = "query"
            /\ UNCHANGED <<kg2, file, ingested, cacheVars, extractVars, storeVars>>

\* the interactive loop (ui/terminal.py run_interactive_mode) reads a
\* command and runs QueryEngine.execute_query(q) on the built graph; an
\* export writes the file
ExecuteQuery ==
    \E q \in Queries :
        \E ok \in (IF IsExport(q) THEN BOOLEAN ELSE {TRUE}) :
            /\ result = NoResult
            /\ result' = [call |-> "execute_query", query |-> q, io |-> ok,
                          response |-> execute_query(heap, kg, q, ok)]
            /\ file' = IF IsExport(q) /\ ok
                       THEN [exists |-> TRUE, data |-> to_dict(heap, kg)]
                       ELSE file
            /\ mode' = "query"
            /\ UNCHANGED <<heap, kg, kg2, ingested, cacheVars, extractVars, storeVars>>

\* the node keys the callers ask paths for
Keys == {tA, ta, tB}

\* KnowledgeGraph.get_path(source, target) on the built graph
GetPath ==
    \E s \in Keys, t \in Keys :
        /\ result = NoResult
        /\ result' = [call |-> "get_path", source |-> s, target |-> t,
                      path |-> get_path(kg, s, t)]
        /\ mode' = "query"
        /\ UNCHANGED <<heap, kg, kg2, file, ingested, cacheVars, extractVars, storeVars>>

\* KnowledgeGraph.get_relations(key) on the built graph
GetRelations ==
    \E key \in Keys :
        /\ result = NoResult
        /\ ~get_relations_raises(kg, key)
        /\ result' = [call |-> "get_relations", key |-> key,
                      relations |-> get_relations(kg, key)]
        /\ mode' = "query"
        /\ UNCHANGED <<heap, kg, kg2, file, ingested, cacheVars, extractVars, storeVars>>

\* the interactive loop displays the result and prompts again
Display ==
    /\ result # NoResult
    /\ result' = NoResult
    /\ UNCHANGED <<heap, kg, kg2, file, ingested, mode, cacheVars, extractVars, storeVars>>

NextGraph == AddEntity \/ AddRelation \/ Save \/ Load

SpecGraph == Init /\ [][NextGraph]_vars

\* the store built by any calls of its API, then asked for paths
NextPath == AddEntity \/ AddRelation \/ GetPath \/ Display

SpecPath == Init /\ [][NextPath]_vars

\* the store built by any calls of its API, then asked for relations
NextRelations == AddEntity \/ AddRelation \/ GetRelations \/ Display

SpecRelations == Init /\ [][NextRelations]_vars

NextQuery == IngestEntity \/ IngestRelation \/ ExecuteQuery \/ GetPath \/ Display

SpecQuery == Init /\ [][NextQuery]_vars

\* the relations an extract call returned, in the order of its list: the
\* three entities related to each other in both directions, and a second
\* relation of another type between the first two
Extracted ==
    << [source |-> 1, relation_type |-> r1, target |-> 2, sentence |-> "s1"],
       [source |-> 2, relation_type |-> r1, target |-> 1, sentence |-> "s1"],
       [source |-> 1, relation_type |-> r1, target |-> 3, sentence |-> "s2"],
       [source |-> 3, relation_type |-> r1, target |-> 1, sentence |-> "s2"],
       [source |-> 2, relation_type |-> r1, target |-> 3, sentence |-> "s3"],
       [source |-> 3, relation_type |-> r1, target |-> 2, sentence |-> "s3"],
       [source |-> 1, relation_type |-> r2, target |-> 2, sentence |-> "s4"] >>

\* the relation loop of cli.py process over a list the extractor returned:
\* the relations are added in the order of the list (any sublist of
\* Extracted is such a list)
IngestExtracted ==
    \E i \in 1..Len(Extracted) :
        /\ mode = "build"
        /\ \A j \in i..Len(Extracted) : ~InSeq(Extracted[j], kg.relations)
        /\ {Extracted[i].source, Extracted[i].target} \subseteq ingested
        /\ kg' = add_relation(heap, kg, Extracted[i])
        /\ UNCHANGED <<heap, kg2, file, ingested, mode, result, cacheVars, extractVars, storeVars>>

\* the graph ingested from an extraction with many relations, then queried
NextRelated == IngestEntity \/ IngestExtracted \/ ExecuteQuery \/ Display

SpecRelated == Init /\ [][NextRelated]_vars

\* the graph ingested and saved, and snapshots of any origin loaded into a
\* second store
NextLoad == IngestEntity \/ IngestRelation \/ Save \/ WriteSnapshot \/ LoadSnapshot

SpecLoad == Init /\ [][NextLoad]_vars

\* Entity objects the callers construct while the graph is built: their ids
\* follow those of the pool
Fresh ==
    (5 :> NewEntity(<<"C">>, ORG)) @@ (6 :> NewEntity(<<"D">>, PERSON)) @@
    (7 :> NewEntity(<<"E">>, ORG))

\* the heap once the objects ids are constructed
Construct(h, ids) ==
    [id \in DOMAIN h \cup ids |-> IF id \in DOMAIN h THEN h[id] ELSE Fresh[id]]

\* kg.add_entity(Entity(...)) for the new entities, in the order of their list
AddFresh ==
    \E id \in {5, 6} :
        LET w == add_entity(Construct(heap, {id}), kg, id)
        IN  /\ mode = "build"
            /\ \A j \in ingested : j < id
            /\ heap' = w.heap
            /\ kg' = w.kg
            /\ ingested' = ingested \cup {id}
            /\ UNCHANGED <<kg2, file, mode, result, cacheVars, extractVars, storeVars>>

\* Relation objects of the callers, in the order they are added; the
\* endpoints of the first and the last include an entity that is never added
Stated ==
    << [source |-> 7, relation_type |-> r1, target |-> 1, sentence |-> "s1"],
       [source |-> 1, relation_type |-> r1, target |-> 2, sentence |-> "s2"],
       [source |-> 5, relation_type |-> r2, target |-> 7, sentence |-> "s3"] >>

\* kg.add_relation(Relation(source, type, target, sentence)): nothing is
\* required of the endpoints
AddStated ==
    \E i \in 1..Len(Stated) :
        LET r == Stated[i]
            h == Construct(heap, {r.source, r.target} \ DOMAIN heap)
        IN  /\ mode = "build"
            /\ \A j \in i..Len(Stated) : ~InSeq(Stated[j], kg.relations)
            /\ heap' = h
            /\ kg' = add_relation(h, kg, r)
            /\ UNCHANGED <<kg2, file, ingested, mode, result, cacheVars, extractVars, storeVars>>

\* display_graph_summary: graph.get_summary() on the built graph
GetSummary ==
    /\ result = NoResult
    /\ result' = [call |-> "get_summary", summary |-> get_summary(heap, kg)]
    /\ mode' = "query"
    /\ UNCHANGED <<heap, kg, kg2, file, ingested, cacheVars, extractVars, storeVars>>

\* the graph built through its API from entities and relations, then summarised
NextSummary == IngestEntity \/ AddFresh \/ AddStated \/ GetSummary \/ Display

SpecSummary == Init /\ [][NextSummary]_vars

-----------------------------------------------------------------------------
(* Python dicts, which keep their keys in insertion order, as sequences of  *)
(* [key, value]                                                             *)

DictHas(d, key) == \E i \in 1..Len(d) : d[i].key = key

DictIndex(d, key) == CHOOSE i \in 1..Len(d) : d[i].key = key

DictGet(d, key) == d[DictIndex(d, key)].value

\* d[key] = value: a key the dict holds keeps its position
DictSet(d, key, value) ==
    IF DictHas(d, key)
    THEN [d EXCEPT ![DictIndex(d, key)].value = value]
    ELSE Append(d, [key |-> key, value |-> value])

\* d.pop(key), the remaining dict
DictPop(d, key) ==
    LET i == DictIndex(d, key)
    IN  SubSeq(d, 1, i - 1) \o SubSeq(d, i + 1, Len(d))

DictKeys(d) == {d[i].key : i \in 1..Len(d)}

\* a Python list where None can stand as well: the list is boxed, so that
\* the two compare
List(items) == [list |-> items]

\* bool(value) of a list or None
Truthy(value) == value # None /\ value # List(<< >>)

-----------------------------------------------------------------------------
(* utils/cache.py: the LRU cache with its mirror on disk *)

\* Cache.max_size
max_size == 2

\* the fingerprints and the values of the direct callers of get and set
CacheKeys == {<<"key", i>> : i \in 1..(max_size + 1)}
CacheValues == {List(<<"v1">>), List(<<"v2">>)}

\* the values a key is set to: the first key to either one, the others to
\* the first
ValuesOf(key) == IF key[2] = 1 THEN CacheValues ELSE {List(<<"v1">>)}

Abs(n) == IF n < 0 THEN 0 - n ELSE n

\* hash(key): distinct integers for the keys of the model, some negative.
\* The extractors' keys are made of the hashes of their arguments, which
\* the model names by their positions in Texts and EntityLists.
Hash(key) ==
    IF key[1] = "key" THEN (IF key[2] % 2 = 0 THEN 0 - key[2] ELSE key[2])
    ELSE IF key[1] = "stem" THEN 1000 + key[2]
    ELSE IF key[1] = "entities" THEN 10 + key[2]
    ELSE 0 - (20 + 10 * key[2] + key[3])

\* Cache._get_cache_file: the file "<abs(hash(key))>.cache", named by its stem
get_cache_file(key) == Abs(Hash(key))

\* the disk without the file f
Unlink(disk, f) == [x \in DOMAIN disk \ {f} |-> disk[x]]

\* Cache._prune_cache; the disk operations on the files in fails raise.
\* failed tells whether a failure was logged.
RECURSIVE prune_cache(_, _, _, _)
prune_cache(memory, disk, fails, failed) ==
    IF Len(memory) > max_size
    THEN LET cache_file == get_cache_file(memory[1].key)
         IN  IF cache_file \in DOMAIN disk
             THEN IF cache_file \in fails
                  THEN prune_cache(Tail(memory), disk, fails, TRUE)
                  ELSE prune_cache(Tail(memory), Unlink(disk, cache_file), fails, failed)
             ELSE prune_cache(Tail(memory), disk, fails, failed)
    ELSE [memory |-> memory, disk |-> disk, failed |-> failed]

\* Cache.get without moving the key it finds in memory to the end
cache_get_in_place(c, key, fails) ==
    IF DictHas(c.memory, key)
    THEN [cache |-> c, value |-> DictGet(c.memory, key), failed |-> FALSE]
    ELSE LET cache_file == get_cache_file(key)
         IN  IF cache_file \in DOMAIN c.disk
             THEN IF cache_file \in fails
                  THEN [cache |-> c, value |-> None, failed |-> TRUE]
                  ELSE LET value == c.disk[cache_file]
                           p == prune_cache(DictSet(c.memory, key, value),
                                            c.disk, fails, FALSE)
                       IN  [cache |-> [memory |-> p.memory, disk |-> p.disk],
                            value |-> value, failed |-> p.failed]
             ELSE [cache |-> c, value |-> None, failed |-> FALSE]

\* Cache.get: the cache afterwards, the value returned, whether a failure
\* was logged
cache_get(c, key, fails) ==
    IF DictHas(c.memory, key)
    THEN LET value == DictGet(c.memory, key)
         IN  [cache |-> [c EXCEPT !.memory = DictSet(DictPop(c.memory, key), key, value)],
              value |-> value, failed |-> FALSE]
    ELSE LET cache_file == get_cache_file(key)
         IN  IF cache_file \in DOMAIN c.disk
             THEN IF cache_file \in fails
                  THEN [cache |-> c, value |-> None, failed |-> TRUE]
                  ELSE LET value == c.disk[cache_file]
                           p == prune_cache(DictSet(c.memory, key, value),
                                            c.disk, fails, FALSE)
                       IN  [cache |-> [memory |-> p.memory, disk |-> p.disk],
                            value |-> value, failed |-> p.failed]
             ELSE [cache |-> c, value |-> None, failed |-> FALSE]

\* Cache.set writing the file first and giving up when the write fails
cache_set_saved_only(c, key, value, fails) ==
    LET cache_file == get_cache_file(key)
    IN  IF cache_file \in fails
        THEN [cache |-> c, failed |-> TRUE]
        ELSE LET p == prune_cache(DictSet(c.memory, key, value), c.disk, fails, FALSE)
             IN  [cache |-> [memory |-> p.memory,
                             disk |-> (cache_file :> value) @@ p.disk],
                  failed |-> p.failed]

\* Cache.set: the cache afterwards, whether a failure was logged
cache_set(c, key, value, fails) ==
    LET p == prune_cache(DictSet(c.memory, key, value), c.disk, fails, FALSE)
        cache_file == get_cache_file(key)
    IN  IF cache_file \in fails
        THEN [cache |-> [memory |-> p.memory, disk |-> p.disk], failed |-> TRUE]
        ELSE [cache |-> [memory |-> p.memory,
                         disk |-> (cache_file :> value) @@ p.disk],
              failed |-> p.failed]

\* Cache.clear: the files whose unlink raises stay
cache_clear(c, fails) ==
    [cache |-> [memory |-> << >>,
                disk |-> [x \in DOMAIN c.disk \cap fails |-> c.disk[x]]],
     failed |-> DOMAIN c.disk \cap fails # {}]

\* the key moved to the most recent end of the access order
Touch(recency, key) ==
    SelectSeq(recency, LAMBDA k : k # key) \o <<key>>

\* the history after get(key) returned r
HistGet(h, key, r) ==
    [h EXCEPT !.recency = IF r.value # None THEN Touch(@, key) ELSE @,
              !.ioFailed = @ \/ r.failed]

\* the history after set(key, ...) returned r: setKeys holds the keys set,
\* setAgain tells whether one of them was set twice
HistSet(h, key, r) ==
    [h EXCEPT !.recency = Touch(@, key),
              !.setKeys = @ \cup {key},
              !.setAgain = @ \/ key \in h.setKeys,
              !.ioFailed = @ \/ r.failed]

\* the files get(key) or set(key, ...) can touch: the key's own and that
\* of the oldest entry
Touched(c, key) ==
    {get_cache_file(key)} \cup
    (IF c.memory # << >> THEN {get_cache_file(c.memory[1].key)} ELSE {})

CacheGet ==
    \E key \in CacheKeys :
        \E fails \in SUBSET Touched(cache, key) :
            LET r == cache_get(cache, key, fails)
            IN  /\ cache' = r.cache
                /\ hist' = HistGet(hist, key, r)
                /\ UNCHANGED <<graphVars, extractVars, storeVars>>

CacheSet ==
    \E key \in CacheKeys :
        \E value \in ValuesOf(key), fails \in SUBSET Touched(cache, key) :
            LET r == cache_set(cache, key, value, fails)
            IN  /\ cache' = r.cache
                /\ hist' = HistSet(hist, key, r)
                /\ UNCHANGED <<graphVars, extractVars, storeVars>>

CacheClear ==
    \E fails \in SUBSET DOMAIN cache.disk :
        LET r == cache_clear(cache, fails)
        IN  /\ cache' = r.cache
            /\ hist' = [NoHistory EXCEPT !.ioFailed = r.failed]
            /\ UNCHANGED <<graphVars, extractVars, storeVars>>

NextCache == CacheGet \/ CacheSet \/ CacheClear

SpecCache == Init /\ [][NextCache]_vars

-----------------------------------------------------------------------------
(* The calls on the Cache with what they were given and what they returned: *)
(* op keeps the last call, the keys in memory by their last access (a get   *)
(* that returned the entry or a set of it; oldest first), and the entries   *)
(* whose write to disk failed.                                              *)

\* at most one disk operation on the files fails during a call
OneOf(files) == {{}} \cup {{f} : f \in files}

\* the keys of the access order that are still in memory
Accessed(recency, memory) == SelectSeq(recency, LAMBDA k : DictHas(memory, k))

\* the entries of unsaved that are still in memory
StillHeld(unsaved, memory) == {e \in unsaved : DictHas(memory, e.key)}

\* get(key)
CallGet ==
    \E key \in CacheKeys :
        \E fails \in OneOf(Touched(cache, key)) :
            LET r == cache_get(cache, key, fails)
            IN  /\ cache' = r.cache
                /\ op' = [call |-> "get", key |-> key, value |-> r.value,
                          recency |-> Accessed(IF r.value # None
                                               THEN Touch(op.recency, key)
                                               ELSE op.recency, r.cache.memory),
                          unsaved |-> StillHeld(op.unsaved, r.cache.memory)]
                /\ UNCHANGED <<graphVars, hist, extractVars, store>>

\* set(key, value); unsaved keeps the entries whose write to disk failed:
\* the one of this call, and those of earlier calls for as long as they are
\* in memory
CallSet ==
    \E key \in CacheKeys :
        \E value \in ValuesOf(key), fails \in OneOf(Touched(cache, key)) :
            LET r == cache_set(cache, key, value, fails)
            IN  /\ cache' = r.cache
                /\ op' = [call |-> "set", key |-> key, value |-> value,
                          recency |-> Accessed(Touch(op.recency, key), r.cache.memory),
                          unsaved |->
                              StillHeld({e \in op.unsaved : e.key # key},
                                        r.cache.memory) \cup
                              (IF get_cache_file(key) \in fails
                               THEN {[key |-> key, value |-> value]} ELSE {})]
                /\ UNCHANGED <<graphVars, hist, extractVars, store>>

\* clear()
CallClear ==
    \E fails \in OneOf(DOMAIN cache.disk) :
        /\ cache' = cache_clear(cache, fails).cache
        /\ op' = [call |-> "clear", key |-> <<"none">>, value |-> None,
                  recency |-> << >>, unsaved |-> {}]
        /\ UNCHANGED <<graphVars, hist, extractVars, store>>

NextCalls == CallGet \/ CallSet \/ CallClear

SpecCalls == Init /\ [][NextCalls]_vars

-----------------------------------------------------------------------------
(* A Cache whose directory outlives it: the process ends and a new Cache is *)
(* constructed over the same directory, which loads the most recently       *)
(* modified files.  store keeps the files by modification time, the name    *)
(* of the last call and whether it logged a failed disk operation.          *)

Reverse(s) == [i \in 1..Len(s) |-> s[Len(s) + 1 - i]]

\* the loop of Cache._load_cache over the files: the key is the file's
\* stem, and a file that cannot be read is skipped
RECURSIVE load_files(_, _, _, _)
load_files(memory, files, disk, fails) ==
    IF files = << >> THEN memory
    ELSE LET f == Head(files)
         IN  load_files(IF f \in fails THEN memory
                        ELSE DictSet(memory, <<"stem", f>>, disk[f]),
                        Tail(files), disk, fails)

\* _load_cache reading every file of the directory
load_cache_all(disk, mtime, fails) ==
    load_files(<< >>, Reverse(mtime), disk, fails)

\* Cache._load_cache: the max_size most recently modified files, the most
\* recent first
load_cache(disk, mtime, fails) ==
    load_files(<< >>, Take(Reverse(mtime), max_size), disk, fails)

\* the memory and the files of the Cache
Files(st) == [memory |-> st.memory, disk |-> st.disk]

\* the files in the order of their modification times, oldest first,
\* without those that are no longer on the disk
Kept(mtime, disk) == SelectSeq(mtime, LAMBDA f : f \in DOMAIN disk)

\* the modification order after the file f was written
Written(mtime, f) == SelectSeq(mtime, LAMBDA x : x # f) \o <<f>>

\* get(key) on the Cache
StoreGet ==
    \E key \in CacheKeys :
        \E fails \in OneOf(Touched(store, key)) :
            LET r == cache_get(Files(store), key, fails)
            IN  /\ store' = [memory |-> r.cache.memory, disk |-> r.cache.disk,
                             mtime |-> Kept(store.mtime, r.cache.disk),
                             call |-> "get", logged |-> r.failed]
                /\ UNCHANGED <<graphVars, cacheVars, extractVars, op>>

\* set(key, value) on the Cache; the values do not matter to what is loaded
\* and evicted, and every key is set to the same one
StoreSet ==
    \E key \in CacheKeys :
        \E fails \in OneOf(Touched(store, key)) :
            LET r == cache_set(Files(store), key, List(<<"v1">>), fails)
                cache_file == get_cache_file(key)
            IN  /\ store' = [memory |-> r.cache.memory, disk |-> r.cache.disk,
                             mtime |-> IF cache_file \in fails
                                       THEN Kept(store.mtime, r.cache.disk)
                                       ELSE Written(Kept(store.mtime, r.cache.disk),
                                                    cache_file),
                             call |-> "set", logged |-> r.failed]
                /\ UNCHANGED <<graphVars, cacheVars, extractVars, op>>

\* clear() on the Cache
StoreClear ==
    \E fails \in OneOf(DOMAIN store.disk) :
        LET r == cache_clear(Files(store), fails)
        IN  /\ store' = [memory |-> r.cache.memory, disk |-> r.cache.disk,
                         mtime |-> Kept(store.mtime, r.cache.disk),
                         call |-> "clear", logged |-> r.failed]
            /\ UNCHANGED <<graphVars, cacheVars, extractVars, op>>

\* the process ends and Cache(cache_dir, max_size) is constructed again
StoreRestart ==
    \E fails \in OneOf(DOMAIN store.disk) :
        /\ store' = [store EXCEPT
                        !.memory = load_cache(store.disk, store.mtime, fails),
                        !.call = "__init__",
                        !.logged = fails \cap Range(Take(Reverse(store.mtime), max_size)) # {}]
        /\ UNCHANGED <<graphVars, cacheVars, extractVars, op>>

NextStore == StoreGet \/ StoreSet \/ StoreClear \/ StoreRestart

SpecStore == Init /\ [][NextStore]_vars

-----------------------------------------------------------------------------
(* The texts of the model.  spaCy is outside the model: a text comes with   *)
(* what nlp() finds in it, sentence by sentence: the sentence's text as its *)
(* space-separated chunks, its named entities (those with a label of       *)
(* config.entity_types), and the ROOT verbs of its parse with the texts of *)
(* their nsubj / nsubjpass and dobj / pobj children.                        *)

\* the words of the texts
Words ==
    [ Ab |-> <<"A","b">>,
      AB |-> <<"A","B">>,
      AbSpace |-> <<"A","b"," ">>,
      Bo |-> <<"B","o">>,
      bo |-> <<"b","o">>,
      BoDot |-> <<"B","o",".">>,
      BoS |-> <<"B","o","'","s">>,
      Cy |-> <<"C","y">>,
      boss |-> <<"b","o","s","s">>,
      founded |-> <<"f","o","u","n","d","e","d">>,
      Works |-> <<"W","o","r","k","s">>,
      for |-> <<"f","o","r">>,
      is |-> <<"i","s">>,
      found |-> <<"f","o","u","n","d">> ]

Mention(text, entity_type) == [text |-> text, entity_type |-> entity_type]

Texts ==
    << \* "Ab founded Bo. AB Works for bo"
       << [words |-> <<Words.Ab, Words.founded, Words.BoDot>>,
           ents  |-> <<Mention(Words.Ab, PERSON), Mention(Words.Bo, ORG)>>,
           roots |-> <<[lemma |-> Words.found, nsubj |-> <<Words.Ab>>, obj |-> <<Words.Bo>>]>>],
          [words |-> <<Words.AB, Words.Works, Words.for, Words.bo>>,
           ents  |-> <<Mention(Words.AB, PERSON), Mention(Words.bo, ORG)>>,
           roots |-> << >>] >>,
       \* "Cy founded Bo. Ab is Bo's boss"
       << [words |-> <<Words.Cy, Words.founded, Words.BoDot>>,
           ents  |-> <<Mention(Words.Cy, PERSON), Mention(Words.Bo, ORG), Mention(Words.Ab, ORG)>>,
           roots |-> <<[lemma |-> Words.found, nsubj |-> <<Words.Cy>>, obj |-> <<Words.Bo>>]>>],
          [words |-> <<Words.Ab, Words.is, Words.BoS, Words.boss>>,
           ents  |-> <<Mention(Words.AbSpace, ORG), Mention(Words.Bo, ORG)>>,
           roots |-> << >>] >>,
       \* a text without sentences
       << >> >>

\* the entity lists passed to RelationExtractor.extract
EntityLists ==
    << <<NewEntity(Words.Ab, PERSON), NewEntity(Words.Bo, ORG)>>,
       <<NewEntity(Words.Bo, ORG)>>,
       <<NewEntity(tA, ORG), NewEntity(Words.Bo, ORG), NewEntity(Words.bo, PERSON)>> >>

-----------------------------------------------------------------------------
(* utils/threading.py *)

\* what future.result() gives for the task of item i: what process_func
\* returned, or None after the logged exception
future_result(returns, slots, i) ==
    IF slots[i] = "ok" THEN List(returns[i]) ELSE None

\* the results appended in the order in which the tasks complete
parallel_process_as_completed(returns, slots, order) ==
    [k \in 1..Len(order) |-> future_result(returns, slots, order[k])]

\* parallel_process, given what process_func returns for every item, how
\* every task ended and the order in which as_completed yielded the tasks:
\* results[index] is assigned for every yielded future
parallel_process(returns, slots, order) ==
    [i \in 1..Len(returns) |->
        IF \E k \in 1..Len(order) : order[k] = i
        THEN future_result(returns, slots, i)
        ELSE None]

-----------------------------------------------------------------------------
(* extractor/entity_extractor.py *)

\* Entity.normalized_text
normalized_text(e) == Strip(Lower(e.text))

\* the key of the merge loop without the lower-casing
entity_key_as_written(e) == <<e.text, e.entity_type>>

\* the key of the merge loop of EntityExtractor.extract
entity_key(e) == <<normalized_text(e), e.entity_type>>

\* EntityExtractor._process_sentence
process_sentence_entities(sentence) ==
    [i \in 1..Len(sentence.ents) |->
        NewEntity(sentence.ents[i].text, sentence.ents[i].entity_type)]

\* the merge loop of EntityExtractor.extract over one sentence's entities
RECURSIVE MergeSentence(_, _)
MergeSentence(entities_dict, sentence_entities) ==
    IF sentence_entities = << >> THEN entities_dict
    ELSE LET entity == Head(sentence_entities)
             key == entity_key(entity)
         IN  MergeSentence(
                 IF DictHas(entities_dict, key)
                 THEN DictSet(entities_dict, key,
                              EntityUpdate(DictGet(entities_dict, key), entity))
                 ELSE DictSet(entities_dict, key, entity),
                 Tail(sentence_entities))

\* the merge loop of EntityExtractor.extract: iterating a None slot raises
\* TypeError
RECURSIVE MergeResults(_, _)
MergeResults(entities_dict, results) ==
    IF results = << >> THEN [raised |-> "", dict |-> entities_dict]
    ELSE IF Head(results) = None THEN [raised |-> "TypeError", dict |-> entities_dict]
    ELSE MergeResults(MergeSentence(entities_dict, Head(results).list), Tail(results))

\* the entities as EntityExtractor.extract caches them
EntitiesToCache(entities) ==
    List([i \in 1..Len(entities) |->
            [text |-> entities[i].text, entity_type |-> entities[i].entity_type]])

\* the entities EntityExtractor.extract makes of a cached result
EntitiesFromCache(cached_result) ==
    [i \in 1..Len(cached_result.list) |->
        NewEntity(cached_result.list[i].text, cached_result.list[i].entity_type)]

-----------------------------------------------------------------------------
(* extractor/relation_extractor.py *)

IsWordChar(c) ==
    \/ \E i \in 1..Len(UpperChars) : UpperChars[i] = c \/ LowerChars[i] = c
    \/ c \in {"0","1","2","3","4","5","6","7","8","9","_"}

AllWord(chunk) == chunk # << >> /\ \A i \in 1..Len(chunk) : IsWordChar(chunk[i])

\* the longest run of \w at the start of the chunk
WPrefix(chunk) ==
    LET n == CHOOSE n \in 0..Len(chunk) :
                 /\ \A i \in 1..n : IsWordChar(chunk[i])
                 /\ n < Len(chunk) => ~IsWordChar(chunk[n+1])
    IN  SubSeq(chunk, 1, n)

\* the longest run of \w at the end of the chunk
WSuffix(chunk) ==
    LET n == CHOOSE n \in 0..Len(chunk) :
                 /\ \A i \in (Len(chunk) - n + 1)..Len(chunk) : IsWordChar(chunk[i])
                 /\ n < Len(chunk) => ~IsWordChar(chunk[Len(chunk) - n])
    IN  SubSeq(chunk, Len(chunk) - n + 1, Len(chunk))

\* the patterns (\w+) (verbs) (\w+) and (\w+) (verbs) for (\w+) of
\* config.relation_patterns, compiled with re.IGNORECASE, matched with the
\* first group in chunk i: the groups 1 and 3 and the last chunk used
MatchVerbAt(words, i, verbs, literals) ==
    LET last == i + 1 + Len(literals) + 1
    IN  /\ last <= Len(words)
        /\ WSuffix(words[i]) # << >>
        /\ Lower(words[i+1]) \in verbs
        /\ \A j \in 1..Len(literals) : Lower(words[i+1+j]) = literals[j]
        /\ WPrefix(words[last]) # << >>

\* (\w+) (is|are|was|were) (\w+)'s (\w+) matched with the first group in chunk i
MatchRoleAt(words, i) ==
    /\ i + 3 <= Len(words)
    /\ WSuffix(words[i]) # << >>
    /\ Lower(words[i+1]) \in {<<"i","s">>, <<"a","r","e">>, <<"w","a","s">>, <<"w","e","r","e">>}
    /\ Len(words[i+2]) > 2
    /\ AllWord(SubSeq(words[i+2], 1, Len(words[i+2]) - 2))
    /\ Lower(SubSeq(words[i+2], Len(words[i+2]) - 1, Len(words[i+2]))) = <<"'","s">>
    /\ WPrefix(words[i+3]) # << >>

\* where the search for the next match starts after a match that ended in
\* the chunk last: in that chunk if it has characters left after the match
NextStart(words, last) == IF AllWord(words[last]) THEN last + 1 ELSE last

\* pattern.finditer for the verb patterns: the matches from chunk start on,
\* left to right and not overlapping
RECURSIVE FindVerbMatches(_, _, _, _)
FindVerbMatches(words, start, verbs, literals) ==
    IF \E i \in start..Len(words) : MatchVerbAt(words, i, verbs, literals)
    THEN LET i == CHOOSE i \in start..Len(words) :
                      /\ MatchVerbAt(words, i, verbs, literals)
                      /\ \A j \in start..(i-1) : ~MatchVerbAt(words, j, verbs, literals)
             last == i + 1 + Len(literals) + 1
         IN  <<[group1 |-> WSuffix(words[i]), group3 |-> WPrefix(words[last])]>>
             \o FindVerbMatches(words, NextStart(words, last), verbs, literals)
    ELSE << >>

\* pattern.finditer for the has_role pattern
RECURSIVE FindRoleMatches(_, _)
FindRoleMatches(words, start) ==
    IF \E i \in start..Len(words) : MatchRoleAt(words, i)
    THEN LET i == CHOOSE i \in start..Len(words) :
                      /\ MatchRoleAt(words, i)
                      /\ \A j \in start..(i-1) : ~MatchRoleAt(words, j)
         IN  <<[group1 |-> WSuffix(words[i]),
                group3 |-> SubSeq(words[i+2], 1, Len(words[i+2]) - 2),
                group4 |-> WPrefix(words[i+3])]>>
             \o FindRoleMatches(words, NextStart(words, i + 3))
    ELSE << >>

\* the entity_lookup dictionary of RelationExtractor.extract: every entity,
\* named by its position in the list, under text.lower() and under
\* text.lower() + "_" + entity_type
RECURSIVE BuildLookup(_, _, _)
BuildLookup(entity_lookup, entities, i) ==
    IF i > Len(entities) THEN entity_lookup
    ELSE BuildLookup(
             DictSet(DictSet(entity_lookup, Lower(entities[i].text), i),
                     Lower(entities[i].text) \o <<"_">> \o entities[i].entity_type, i),
             entities, i + 1)

\* _find_entity whose fuzzy loop returns the first entity without the test
find_entity_untested(text, entity_lookup) ==
    LET text_lower == Lower(text)
    IN  IF DictHas(entity_lookup, text_lower) THEN DictGet(entity_lookup, text_lower)
        ELSE IF entity_lookup # << >> THEN entity_lookup[1].value
        ELSE NoEntity

\* RelationExtractor._find_entity: the exact key, or else the first key
\* that holds the text or is held by it
find_entity(text, entity_lookup) ==
    LET text_lower == Lower(text)
        Fuzzy(i) == \/ Contains(entity_lookup[i].key, text_lower)
                    \/ Contains(text_lower, entity_lookup[i].key)
    IN  IF DictHas(entity_lookup, text_lower) THEN DictGet(entity_lookup, text_lower)
        ELSE IF \E i \in 1..Len(entity_lookup) : Fuzzy(i)
        THEN entity_lookup[CHOOSE i \in 1..Len(entity_lookup) :
                              Fuzzy(i) /\ \A j \in 1..(i-1) : ~Fuzzy(j)].value
        ELSE NoEntity

NewRelation(source, relation_type, target, sentence) ==
    [source |-> source, relation_type |-> relation_type,
     target |-> target, sentence |-> sentence]

\* the body of the match loop of _extract_with_patterns: the relation of a
\* match, if both its entities are found
match_relation(source_text, relation_type, target_text, sentence, entity_lookup) ==
    LET source_entity == find_entity(source_text, entity_lookup)
        target_entity == find_entity(target_text, entity_lookup)
    IN  IF source_entity # NoEntity /\ target_entity # NoEntity
        THEN <<NewRelation(source_entity, relation_type, target_entity, sentence.words)>>
        ELSE << >>

RECURSIVE Concat(_)
Concat(lists) == IF lists = << >> THEN << >> ELSE Head(lists) \o Concat(Tail(lists))

works_for == <<"w","o","r","k","s","_","f","o","r">>
founded == <<"f","o","u","n","d","e","d">>
created == <<"c","r","e","a","t","e","d">>

\* the patterns with a branch in _extract_with_patterns, in the order of
\* config.relation_patterns; located_in and born_in have none, and their
\* matches add nothing
VerbPatterns ==
    << [relation_type |-> works_for, literals |-> <<Words.for>>,
        verbs |-> {<<"w","o","r","k">>, <<"w","o","r","k","s">>, <<"w","o","r","k","e","d">>}],
       [relation_type |-> founded, literals |-> << >>,
        verbs |-> {<<"f","o","u","n","d">>, <<"f","o","u","n","d","s">>, founded}],
       [relation_type |-> created, literals |-> << >>,
        verbs |-> {<<"c","r","e","a","t","e">>, <<"c","r","e","a","t","e","s">>, created}] >>

\* RelationExtractor._extract_with_patterns
extract_with_patterns(sentence, entity_lookup) ==
    Concat([p \in 1..Len(VerbPatterns) |->
              LET matches == FindVerbMatches(sentence.words, 1,
                                 VerbPatterns[p].verbs, VerbPatterns[p].literals)
              IN  Concat([m \in 1..Len(matches) |->
                            match_relation(matches[m].group1,
                                VerbPatterns[p].relation_type,
                                matches[m].group3, sentence, entity_lookup)])])
    \o LET matches == FindRoleMatches(sentence.words, 1)
       IN  Concat([m \in 1..Len(matches) |->
                     match_relation(matches[m].group1,
                         <<"i","s","_">> \o matches[m].group4 \o <<"_","o","f">>,
                         matches[m].group3, sentence, entity_lookup)])

\* the first of the children whose lower-cased text is a key of entity_lookup
FirstKnown(children, entity_lookup) ==
    IF \E i \in 1..Len(children) : DictHas(entity_lookup, Lower(children[i]))
    THEN DictGet(entity_lookup,
             Lower(children[CHOOSE i \in 1..Len(children) :
                      /\ DictHas(entity_lookup, Lower(children[i]))
                      /\ \A j \in 1..(i-1) : ~DictHas(entity_lookup, Lower(children[j]))]))
    ELSE NoEntity

\* RelationExtractor._extract_with_syntax
extract_with_syntax(sentence, entity_lookup) ==
    Concat([k \in 1..Len(sentence.roots) |->
              LET subject == FirstKnown(sentence.roots[k].nsubj, entity_lookup)
                  object  == FirstKnown(sentence.roots[k].obj, entity_lookup)
              IN  IF subject # NoEntity /\ object # NoEntity
                  THEN <<NewRelation(subject, sentence.roots[k].lemma, object,
                                     sentence.words)>>
                  ELSE << >>])

\* RelationExtractor._process_sentence; _extract_with_mlx adds nothing
process_sentence_relations(sentence, entity_lookup) ==
    extract_with_patterns(sentence, entity_lookup)
    \o extract_with_syntax(sentence, entity_lookup)

\* relations.extend(sentence_relations) over the results: extending by a
\* None slot raises TypeError
RECURSIVE CombineResults(_, _)
CombineResults(relations, results) ==
    IF results = << >> THEN [raised |-> "", relations |-> relations]
    ELSE IF Head(results) = None THEN [raised |-> "TypeError", relations |-> relations]
    ELSE CombineResults(relations \o Head(results).list, Tail(results))

\* the relations as RelationExtractor.extract caches them
RelationsToCache(relations, entities) ==
    List([i \in 1..Len(relations) |->
            [source |-> entities[relations[i].source].text,
             relation_type |-> relations[i].relation_type,
             target |-> entities[relations[i].target].text,
             sentence |-> relations[i].sentence]])

\* entity_dict = {e.text: e for e in entities}
RECURSIVE BuildEntityDict(_, _, _)
BuildEntityDict(entity_dict, entities, i) ==
    IF i > Len(entities) THEN entity_dict
    ELSE BuildEntityDict(DictSet(entity_dict, entities[i].text, i), entities, i + 1)

\* the relations RelationExtractor.extract makes of a cached result
RelationsFromCache(cached_result, entities) ==
    LET entity_dict == BuildEntityDict(<< >>, entities, 1)
        Lookup(text) == IF DictHas(entity_dict, text) THEN DictGet(entity_dict, text)
                        ELSE NoEntity
    IN  Concat([i \in 1..Len(cached_result.list) |->
                  LET r == cached_result.list[i]
                  IN  IF Lookup(r.source) # NoEntity /\ Lookup(r.target) # NoEntity
                      THEN <<NewRelation(Lookup(r.source), r.relation_type,
                                         Lookup(r.target), r.sentence)>>
                      ELSE << >>])

-----------------------------------------------------------------------------
(* The extract calls.  A call that misses the cache submits one task per    *)
(* sentence to the thread pool; the tasks finish in any order, each by      *)
(* returning or by raising, and the call goes on when all have finished.    *)

EntityCacheKey(t) == <<"entities", t>>
RelationCacheKey(t, l) == <<"relations", t, l>>

\* the (text, entity list) pairs RelationExtractor.extract is called with
RelationCalls == {<<1, 3>>, <<2, 1>>, <<1, 2>>, <<3, 1>>}

\* the cache file of the key may fail to be read or written
MayFail(key) == {{}, {get_cache_file(key)}}

Pending(n) == [i \in 1..n |-> "pending"]

\* EntityExtractor.extract(Texts[t]) up to the submission of the tasks
EntityExtractBegin ==
    \E t \in 1..Len(Texts) :
        \E fails \in MayFail(EntityCacheKey(t)) :
            LET r == cache_get(cache, EntityCacheKey(t), fails)
            IN  /\ job = NoJob
                /\ cache' = r.cache
                /\ IF Truthy(r.value)
                   THEN /\ xres' = [call |-> "EntityExtractor.extract", text |-> t,
                                    cached |-> TRUE, slots |-> << >>, order |-> << >>, raised |-> "",
                                    entities |-> EntitiesFromCache(r.value)]
                        /\ job' = job
                   ELSE /\ job' = [kind |-> "entities", text |-> t, list |-> 0,
                                   slots |-> Pending(Len(Texts[t])), order |-> << >>]
                        /\ xres' = NoExtract
                /\ UNCHANGED <<graphVars, hist, storeVars>>

\* RelationExtractor.extract(Texts[t], EntityLists[l]) up to the submission
\* of the tasks
RelationExtractBegin ==
    \E <<t, l>> \in RelationCalls :
        \E fails \in MayFail(RelationCacheKey(t, l)) :
            LET r == cache_get(cache, RelationCacheKey(t, l), fails)
            IN  /\ job = NoJob
                /\ cache' = r.cache
                /\ IF Truthy(r.value)
                   THEN /\ xres' = [call |-> "RelationExtractor.extract", text |-> t,
                                    list |-> l, cached |-> TRUE, slots |-> << >>, order |-> << >>,
                                    raised |-> "",
                                    relations |-> RelationsFromCache(r.value, EntityLists[l])]
                        /\ job' = job
                   ELSE /\ job' = [kind |-> "relations", text |-> t, list |-> l,
                                   slots |-> Pending(Len(Texts[t])), order |-> << >>]
                        /\ xres' = NoExtract
                /\ UNCHANGED <<graphVars, hist, storeVars>>

\* a task of the pool returns
WorkerReturns ==
    \E i \in 1..(IF job = NoJob THEN 0 ELSE Len(job.slots)) :
        /\ job.slots[i] = "pending"
        /\ job' = [job EXCEPT !.slots[i] = "ok", !.order = Append(@, i)]
        /\ UNCHANGED <<graphVars, cacheVars, xres, storeVars>>

\* a task of the pool raises: parallel_process logs it and leaves None in
\* its slot
WorkerRaises ==
    \E i \in 1..(IF job = NoJob THEN 0 ELSE Len(job.slots)) :
        /\ job.slots[i] = "pending"
        /\ job' = [job EXCEPT !.slots[i] = "raised", !.order = Append(@, i)]
        /\ UNCHANGED <<graphVars, cacheVars, xres, storeVars>>

AllFinished == \A i \in 1..Len(job.slots) : job.slots[i] # "pending"

\* EntityExtractor.extract from the return of parallel_process on
EntityExtractFinish ==
    /\ job # NoJob
    /\ job.kind = "entities"
    /\ AllFinished
    /\ LET sentences == Texts[job.text]
           results == parallel_process(
                          [i \in 1..Len(sentences) |-> process_sentence_entities(sentences[i])],
                          job.slots, job.order)
           merged == MergeResults(<< >>, results)
           entities == [i \in 1..Len(merged.dict) |-> merged.dict[i].value]
       IN  IF merged.raised # ""
           THEN /\ xres' = [call |-> "EntityExtractor.extract", text |-> job.text,
                            cached |-> FALSE, slots |-> job.slots, order |-> job.order,
                            raised |-> merged.raised, entities |-> << >>]
                /\ cache' = cache
           ELSE \E fails \in MayFail(EntityCacheKey(job.text)) :
                   /\ cache' = cache_set(cache, EntityCacheKey(job.text),
                                         EntitiesToCache(entities), fails).cache
                   /\ xres' = [call |-> "EntityExtractor.extract", text |-> job.text,
                               cached |-> FALSE, slots |-> job.slots, order |-> job.order,
                               raised |-> "", entities |-> entities]
    /\ job' = NoJob
    /\ UNCHANGED <<graphVars, hist, storeVars>>

\* RelationExtractor.extract from the return of parallel_process on
RelationExtractFinish ==
    /\ job # NoJob
    /\ job.kind = "relations"
    /\ AllFinished
    /\ LET entities == EntityLists[job.list]
           entity_lookup == BuildLookup(<< >>, entities, 1)
           sentences == Texts[job.text]
           results == parallel_process(
                          [i \in 1..Len(sentences) |->
                              process_sentence_relations(sentences[i], entity_lookup)],
                          job.slots, job.order)
           combined == CombineResults(<< >>, results)
       IN  IF combined.raised # ""
           THEN /\ xres' = [call |-> "RelationExtractor.extract", text |-> job.text,
                            list |-> job.list, cached |-> FALSE, slots |-> job.slots, order |-> job.order,
                            raised |-> combined.raised, relations |-> << >>]
                /\ cache' = cache
           ELSE \E fails \in MayFail(RelationCacheKey(job.text, job.list)) :
                   /\ cache' = cache_set(cache, RelationCacheKey(job.text, job.list),
                                         RelationsToCache(combined.relations, entities),
                                         fails).cache
                   /\ xres' = [call |-> "RelationExtractor.extract", text |-> job.text,
                               list |-> job.list, cached |-> FALSE, slots |-> job.slots, order |-> job.order,
                               raised |-> "", relations |-> combined.relations]
    /\ job' = NoJob
    /\ UNCHANGED <<graphVars, hist, storeVars>>

NextExtract ==
    \/ EntityExtractBegin
    \/ RelationExtractBegin
    \/ WorkerReturns
    \/ WorkerRaises
    \/ EntityExtractFinish
    \/ RelationExtractFinish

SpecExtract == Init /\ [][NextExtract]_vars

\* the entity extractor alone
NextEntities ==
    EntityExtractBegin \/ WorkerReturns \/ WorkerRaises \/ EntityExtractFinish

SpecEntities == Init /\ [][NextEntities]_vars

-----------------------------------------------------------------------------
(* Properties of the graph store and the query engine *)

\* C1: every add_entity(e) after the first one, with the same object e,
\* increases the stored entity's occurrences by exactly 1 and leaves its
\* key and text unchanged
C1_RepeatedAddAddsOne ==
    [][\A id \in Pool :
          LET t == heap[id].text
              w == add_entity(heap, kg, id)
          IN  (/\ t \in DOMAIN kg.entities
               /\ kg.entities[t] = id
               /\ heap' = w.heap
               /\ kg' = w.kg)
              => /\ heap'[id].occurrences = heap[id].occurrences + 1
                 /\ heap'[id].text = heap[id].text
                 /\ kg'.entities = kg.entities]_vars

\* the keys of the nodes of g
NodeSet(g) == Range(g.nodes)

\* whether walk (a sequence of nodes) follows edges of g from s to t
IsWalk(g, walk, s, t) ==
    /\ walk[1] = s
    /\ walk[Len(walk)] = t
    /\ \A i \in 1..(Len(walk) - 1) : HasEdge(g.edges, walk[i], walk[i+1])

\* whether g has a directed walk of exactly n edges from s to t
HasRoute(g, s, t, n) ==
    \E walk \in [1..(n+1) -> NodeSet(g)] : IsWalk(g, walk, s, t)

\* whether g has a directed route from s to t
Connected(g, s, t) ==
    \E n \in 0..Cardinality(NodeSet(g)) : HasRoute(g, s, t, n)

\* C3: get_path returns a valid directed path from source to target with
\* the fewest edges possible, each step carrying its edge's attributes, and
\* the empty list when an endpoint is no node or there is no route
C3_GetPathShortest ==
    result.call = "get_path" =>
        LET s == result.source
            t == result.target
            p == result.path
        IN  IF s \notin NodeSet(kg) \/ t \notin NodeSet(kg) \/ ~Connected(kg, s, t)
            THEN p = << >>
            ELSE /\ HasRoute(kg, s, t, Len(p))
                 /\ \A n \in 0..(Len(p) - 1) : ~HasRoute(kg, s, t, n)
                 /\ p # << >> => p[1].source = s /\ p[Len(p)].target = t
                 /\ \A i \in 1..(Len(p) - 1) : p[i].target = p[i+1].source
                 /\ \A i \in 1..Len(p) : InSeq(p[i], kg.edges)

\* a one-step path was returned although a two-step route exists as well
C3_Witness ==
    /\ result.call = "get_path"
    /\ Len(result.path) = 1
    /\ HasRoute(kg, result.source, result.target, 2)

\* C4: a graph saved and loaded into a new KnowledgeGraph has the same
\* number of entities, the same number of relations and the same mentions
\* for every entity
C4_RoundTrip ==
    (file.exists /\ file.data = to_dict(heap, kg) /\ kg2 # EmptyGraph) =>
        /\ Cardinality(DOMAIN kg2.entities) = Cardinality(DOMAIN kg.entities)
        /\ Len(kg2.relations) = Len(kg.relations)
        /\ \A t \in DOMAIN kg.entities :
              /\ t \in DOMAIN kg2.entities
              /\ heap[kg2.entities[t]].mentions = heap[kg.entities[t]].mentions

\* the number of stored entities of type ty
EntitiesOfType(ty) ==
    Cardinality({t \in DOMAIN kg.entities : heap[kg.entities[t]].entity_type = ty})

\* the number of stored relations of type ty
RelationsOfType(ty) ==
    Cardinality({i \in 1..Len(kg.relations) : kg.relations[i].relation_type = ty})

qCountEntities == <<"c","o","u","n","t"," ","e","n","t","i","t","i","e","s">>
qCountRelations == <<"C","o","u","n","t"," ","R","e","l","a","t","i","o","n","s">>

\* C6: "count entities" succeeds with the number of stored entities per
\* entity type and their total; "count relations" succeeds with the number
\* of relations per relation type and the length of the relation list
C6_CountQueries ==
    /\ (result.call = "execute_query" /\ result.query = qCountEntities) =>
          LET r == result.response
          IN  /\ r.success
              /\ \A ty \in {ORG, PERSON} :
                    IF EntitiesOfType(ty) = 0
                    THEN ty \notin DOMAIN r.data.counts
                    ELSE /\ ty \in DOMAIN r.data.counts
                         /\ r.data.counts[ty] = EntitiesOfType(ty)
              /\ DOMAIN r.data.counts \subseteq {ORG, PERSON}
              /\ r.data.total = Cardinality(DOMAIN kg.entities)
    /\ (result.call = "execute_query" /\ result.query = qCountRelations) =>
          LET r == result.response
          IN  /\ r.success
              /\ \A ty \in {r1, r2} :
                    IF RelationsOfType(ty) = 0
                    THEN ty \notin DOMAIN r.data.counts
                    ELSE /\ ty \in DOMAIN r.data.counts
                         /\ r.data.counts[ty] = RelationsOfType(ty)
              /\ DOMAIN r.data.counts \subseteq {r1, r2}
              /\ r.data.total = Len(kg.relations)

\* "count entities" answered on a graph with two ORG entities and a PERSON
C6_Witness ==
    /\ result.call = "execute_query"
    /\ result.query = qCountEntities
    /\ result.response.data.total = 3
    /\ result.response.data.counts[ORG] = 2
    /\ result.response.data.counts[PERSON] = 1

\* the queries of the model that name an entity the pool never holds, or
\* no command at all
FailingQueries ==
    { <<"f","i","n","d"," ","C">>,
      <<"p","a","t","h"," ","f","r","o","m"," ","C"," ","t","o"," ","B">>,
      <<"p","a","t","h"," ","f","r","o","m"," ","A"," ","t","o"," ","C">>,
      <<"r","e","l","a","t","e","d"," ","C">>,
      <<"f","i","n","d">>,
      <<"h","e","l","l","o"," ","A">> }

\* C8: execute_query never raises; it returns exactly the fields success, a
\* boolean, message and data, and every failure (entity or path not found,
\* unrecognized command, export I/O error) has success false and no data
C8_UniformResponse ==
    result.call = "execute_query" =>
        LET r == result.response
        IN  /\ DOMAIN r = {"success", "message", "data"}
            /\ r.success \in BOOLEAN
            /\ DOMAIN r.message = {"template", "args"}
            /\ ~r.success => r.data = None
            /\ result.query \in FailingQueries => ~r.success
            /\ (IsExport(result.query) /\ ~result.io) => ~r.success
            /\ (r.message.template = "No path found from '{}' to '{}'.") => ~r.success

\* an export whose file could not be written was answered
C8_Witness ==
    /\ result.call = "execute_query"
    /\ IsExport(result.query)
    /\ ~result.io
    /\ ~result.response.success
    /\ Len(kg.relations) > 0

\* C9: every stored relation and every node of the graph refers to an
\* entity of the entity map
C9_RelationsReferToEntities ==
    /\ \A i \in 1..Len(kg.relations) :
          /\ heap[kg.relations[i].source].text \in DOMAIN kg.entities
          /\ heap[kg.relations[i].target].text \in DOMAIN kg.entities
    /\ \A n \in NodeSet(kg) : n \in DOMAIN kg.entities

-----------------------------------------------------------------------------
(* Properties of the cache *)

\* set was called on max_size + 1 distinct fingerprints, once each, since
\* the cache was empty
SetOnOneMoreThanFits ==
    /\ Cardinality(hist.setKeys) = max_size + 1
    /\ ~hist.setAgain

\* all fingerprints set but the least recently accessed one are in memory
\* and on disk, and that one is in neither
AllButOldestKept ==
    LET kept == hist.setKeys \ {Head(hist.recency)}
    IN  /\ Cardinality(kept) = max_size
        /\ DictKeys(cache.memory) = kept
        /\ DOMAIN cache.disk = {get_cache_file(k) : k \in kept}

-----------------------------------------------------------------------------
(* Properties of the extractors *)

\* the raw mentions of the text t, in the order the resolver sees them
MentionsOf(t) == Concat([i \in 1..Len(Texts[t]) |-> Texts[t][i].ents])

\* the (normalizedText, entityType) pair of a mention or an entity
PairOf(m) == <<Strip(Lower(m.text)), m.entity_type>>

\* the extract call on a text returned what it computed
Computed(call) == xres.call = call /\ ~xres.cached /\ xres.raised = ""

\* C2: the entities computed from a text hold exactly one Entity per
\* distinct (normalizedText, entityType) pair of its mentions, and that
\* Entity's mentions contain every surface form seen with the pair
C2_OneEntityPerPair ==
    Computed("EntityExtractor.extract") =>
        LET ms == MentionsOf(xres.text)
            out == xres.entities
        IN  /\ \A j \in 1..Len(ms) :
                  Cardinality({i \in 1..Len(out) : PairOf(out[i]) = PairOf(ms[j])}) = 1
            /\ \A i \in 1..Len(out) :
                  /\ \E j \in 1..Len(ms) : PairOf(ms[j]) = PairOf(out[i])
                  /\ \A j \in 1..Len(ms) :
                        PairOf(ms[j]) = PairOf(out[i]) => ms[j].text \in out[i].mentions

\* entities were computed from a text that spells one of them in two ways
\* and names another one with another type
C2_Witness ==
    /\ Computed("EntityExtractor.extract")
    /\ Len(xres.entities) >= 3
    /\ \E i \in 1..Len(xres.entities) : Cardinality(xres.entities[i].mentions) = 2

\* whether the text resolves to an entity of the list: by one of the
\* entity's two lookup keys, exactly or as a substring either way
Resolves(text, entities) ==
    \E i \in 1..Len(entities) :
        \E key \in {Lower(entities[i].text),
                    Lower(entities[i].text) \o <<"_">> \o entities[i].entity_type} :
            Contains(key, Lower(text)) \/ Contains(Lower(text), key)

\* the source and target texts of the relation candidates of a sentence
Candidates(sentence) ==
    LET words == sentence.words
    IN  {[source |-> WSuffix(words[i]),
          target |-> WPrefix(words[i + 1 + Len(VerbPatterns[p].literals) + 1])] :
            <<i, p>> \in {ip \in (1..Len(words)) \X (1..Len(VerbPatterns)) :
                MatchVerbAt(words, ip[1], VerbPatterns[ip[2]].verbs,
                            VerbPatterns[ip[2]].literals)}}
        \cup {[source |-> WSuffix(words[i]),
               target |-> SubSeq(words[i+2], 1, Len(words[i+2]) - 2)] :
                 i \in {i \in 1..Len(words) : MatchRoleAt(words, i)}}
        \cup UNION {{[source |-> s, target |-> o] :
                        s \in Range(sentence.roots[k].nsubj),
                        o \in Range(sentence.roots[k].obj)} :
                    k \in 1..Len(sentence.roots)}

\* C7: every Relation returned by RelationExtractor.extract has a source
\* and a target that are members of the entity list passed to the call and
\* stems from a candidate both of whose texts resolve to an entity; a
\* candidate that does not resolve gives no relation and no error
C7_RelationsOnlyBetweenListed ==
    xres.call = "RelationExtractor.extract" =>
        LET entities == EntityLists[xres.list]
        IN  /\ (\A i \in 1..Len(xres.slots) : xres.slots[i] = "ok") => xres.raised = ""
            /\ \A n \in 1..Len(xres.relations) :
                  LET r == xres.relations[n]
                  IN  /\ r.source \in 1..Len(entities)
                      /\ r.target \in 1..Len(entities)
                      /\ \E k \in 1..Len(Texts[xres.text]) :
                            /\ Texts[xres.text][k].words = r.sentence
                            /\ \E c \in Candidates(Texts[xres.text][k]) :
                                  /\ Resolves(c.source, entities)
                                  /\ Resolves(c.target, entities)

\* relations were computed from a text one of whose candidates names an
\* entity that is not in the list
C7_Witness ==
    /\ Computed("RelationExtractor.extract")
    /\ Len(xres.relations) >= 1
    /\ \E k \in 1..Len(Texts[xres.text]) :
          \E c \in Candidates(Texts[xres.text][k]) :
              ~Resolves(c.source, EntityLists[xres.list])

\* the results of parallel_process with every raised task's slot empty
SlotsAsEmpty(returns, slots) ==
    [i \in 1..Len(returns) |-> IF slots[i] = "ok" THEN List(returns[i]) ELSE List(<< >>)]

\* C10: when a worker task raises, its siblings still finish and the
\* extract call returns the entities / relations of the other sentences
C10_WorkerFailureIsolated ==
    (xres.call # "none" /\ \E i \in 1..Len(xres.slots) : xres.slots[i] = "raised") =>
        LET sentences == Texts[xres.text]
        IN  /\ xres.raised = ""
            /\ \A i \in 1..Len(xres.slots) : xres.slots[i] \in {"ok", "raised"}
            /\ xres.call = "EntityExtractor.extract" =>
                  LET merged == MergeResults(<< >>,
                                    SlotsAsEmpty([i \in 1..Len(sentences) |->
                                                    process_sentence_entities(sentences[i])],
                                                 xres.slots))
                  IN  xres.entities = [i \in 1..Len(merged.dict) |-> merged.dict[i].value]
            /\ xres.call = "RelationExtractor.extract" =>
                  LET entity_lookup == BuildLookup(<< >>, EntityLists[xres.list], 1)
                  IN  xres.relations =
                          CombineResults(<< >>,
                              SlotsAsEmpty([i \in 1..Len(sentences) |->
                                              process_sentence_relations(sentences[i],
                                                                         entity_lookup)],
                                           xres.slots)).relations

\* the mentions of the text whose pair is that of m, in submission order
SamePair(t, m) ==
    LET ms == MentionsOf(t)
    IN  {j \in 1..Len(ms) : PairOf(ms[j]) = PairOf(m)}

\* the first mention of every pair of the text, in submission order
FirstMentions(t) ==
    LET ms == MentionsOf(t)
    IN  {j \in 1..Len(ms) : \A k \in SamePair(t, ms[j]) : j <= k}

\* the tasks of the job have all finished, in some order
Completed(j) ==
    /\ \A i \in 1..Len(j.slots) : j.slots[i] \in {"ok", "raised"}
    /\ Len(j.order) = Len(j.slots)
    /\ \A i \in 1..Len(j.slots) : \E k \in 1..Len(j.order) : j.order[k] = i

\* C11: in whatever order the worker tasks complete, parallel_process
\* returns only when all of them have finished, with slot i holding the
\* result of item i, and the entities resolved from the results are those
\* of the mentions taken in submission order: one per pair, in the order of
\* the pairs' first mentions, with the first mention's text, the number of
\* the pair's mentions and their surface forms
C11_CompletionOrderIrrelevant ==
    /\ (xres.call # "none" /\ ~xres.cached) => Completed(xres)
    /\ (job # NoJob /\ job.kind = "entities" /\ AllFinished) =>
          LET returns == [i \in 1..Len(Texts[job.text]) |->
                             process_sentence_entities(Texts[job.text][i])]
              results == parallel_process(returns, job.slots, job.order)
          IN  /\ Len(results) = Len(returns)
              /\ \A i \in 1..Len(returns) :
                    job.slots[i] = "ok" => results[i] = List(returns[i])
    /\ Computed("EntityExtractor.extract") =>
          LET ms == MentionsOf(xres.text)
              out == xres.entities
          IN  /\ Len(out) = Cardinality(FirstMentions(xres.text))
              /\ \A i \in 1..Len(out) :
                    \E j \in FirstMentions(xres.text) :
                        /\ Cardinality({k \in FirstMentions(xres.text) : k < j}) = i - 1
                        /\ out[i].text = ms[j].text
                        /\ out[i].entity_type = ms[j].entity_type
                        /\ out[i].occurrences = Cardinality(SamePair(xres.text, ms[j]))
                        /\ out[i].mentions =
                              {ms[k].text : k \in SamePair(xres.text, ms[j])}

\* entities were computed from a text whose second sentence, which spells
\* an entity of the first sentence in another way, completed first
C11_Witness ==
    /\ Computed("EntityExtractor.extract")
    /\ xres.order = <<2, 1>>
    /\ \E i \in 1..Len(xres.entities) : Cardinality(xres.entities[i].mentions) = 2

-----------------------------------------------------------------------------
(* Further properties of the cache *)

\* the position of the key in the access order: later is more recent
LastAccess(recency, key) == CHOOSE i \in 1..Len(recency) : recency[i] = key

\* the in-memory entries that the step evicts
Evicted == {k \in DictKeys(cache.memory) : ~DictHas(cache'.memory, k)}

\* C12: whenever a get or a set evicts an entry, that entry is the one in
\* memory whose most recent access (a get that returned it, or a set of
\* it, overwriting or not) is the oldest
C12_StrictLRU ==
    [][cache'.memory # << >> =>
          \A k \in Evicted :
              \A other \in DictKeys(cache.memory) \ {k} :
                  LastAccess(hist.recency, k) < LastAccess(hist.recency, other)]_vars

\* the file that holds the record of the entry: the one it was loaded from
\* at construction, or the one set writes for its key
RecordOf(key) == IF key[1] = "stem" THEN key[2] ELSE get_cache_file(key)

\* the in-memory entries that the get or set just made evicts
StoreEvicted ==
    IF store'.call \in {"get", "set"}
    THEN {k \in DictKeys(store.memory) : ~DictHas(store'.memory, k)}
    ELSE {}

\* C13: whenever a get or a set evicts an entry from memory, be it there
\* since a set, a disk-loading get or the construction, and no disk
\* operation of the call failed, the entry's record is gone from the disk
\* afterwards and a get of the entry's fingerprint returns None
C13_EvictionDeletesRecord ==
    [][~store'.logged =>
          \A k \in StoreEvicted :
              /\ RecordOf(k) \notin DOMAIN store'.disk
              /\ cache_get(Files(store'), k, {}).value = None]_vars

\* C14: get(key) returns the value memory holds for the key; on a memory
\* miss with a disk record that can be read it returns the recorded value
\* and the key is the most recent entry of memory afterwards, the least
\* recently accessed entry being evicted when memory was full; with the key
\* neither in memory nor on disk it returns None
C14_GetAsStated ==
    [][op'.call = "get" =>
          LET key == op'.key
              cache_file == get_cache_file(key)
          IN  IF DictHas(cache.memory, key)
              THEN op'.value = DictGet(cache.memory, key)
              ELSE IF cache_file \in DOMAIN cache.disk
              THEN op'.value # None =>
                     /\ op'.value = cache.disk[cache_file]
                     /\ cache'.memory[Len(cache'.memory)] =
                            [key |-> key, value |-> op'.value]
                     /\ DictKeys(cache'.memory) =
                            {key} \cup
                            (IF Len(cache.memory) < max_size
                             THEN DictKeys(cache.memory)
                             ELSE DictKeys(cache.memory) \ {Head(op.recency)})
              ELSE op'.value = None]_vars

\* C15: when the disk write of set(key, value) fails, set returns and
\* memory holds the key with the value afterwards, and for as long as the
\* entry is not evicted every get(key) returns the value
C15_FailedWriteKeepsMemory ==
    [][/\ \A e \in op'.unsaved :
             /\ DictHas(cache'.memory, e.key)
             /\ DictGet(cache'.memory, e.key) = e.value
       /\ op'.call = "get" =>
             \A e \in op.unsaved : e.key = op'.key => op'.value = e.value]_vars

\* a get returned the value of a set whose write had failed, while the
\* key's file holds the value of an earlier set
C15_Witness ==
    /\ op.call = "get"
    /\ [key |-> op.key, value |-> op.value] \in op.unsaved
    /\ get_cache_file(op.key) \in DOMAIN cache.disk
    /\ cache.disk[get_cache_file(op.key)] # op.value

-----------------------------------------------------------------------------
(* Properties of the extractors' use of the cache *)

\* the cache key of the extract call the job belongs to
JobKey(j) ==
    IF j.kind = "entities" THEN EntityCacheKey(j.text)
    ELSE RelationCacheKey(j.text, j.list)

\* C16: an extract call on an input whose entry an earlier call has put in
\* the cache, and that is still there, is answered from the cache: it
\* submits no worker task, whatever the cached result, the empty list
\* included
C16_RepeatedExtractFromCache ==
    [][(job = NoJob /\ job' # NoJob /\ Len(job'.slots) > 0) =>
          ~DictHas(cache.memory, JobKey(job'))]_vars

\* the entities a call that misses the cache computes from the text when
\* every worker task returns
FirstComputed(t) ==
    LET merged == MergeResults(<< >>,
                      [i \in 1..Len(Texts[t]) |->
                          List(process_sentence_entities(Texts[t][i]))])
    IN  [i \in 1..Len(merged.dict) |-> merged.dict[i].value]

\* C17: the entities that EntityExtractor.extract returns from the cache
\* are those the first call on the text computed: as many, with the same
\* text, entity type, occurrence count and mentions
C17_CachedEntitiesAsComputed ==
    (xres.call = "EntityExtractor.extract" /\ xres.cached) =>
        /\ Len(xres.entities) = Len(FirstComputed(xres.text))
        /\ \A i \in 1..Len(xres.entities) :
              LET e == xres.entities[i]
                  first == FirstComputed(xres.text)[i]
              IN  /\ e.text = first.text
                  /\ e.entity_type = first.entity_type
                  /\ e.occurrences = first.occurrences
                  /\ e.mentions = first.mentions

-----------------------------------------------------------------------------
(* Further properties of the graph store *)

\* C18: every stored entity stays the first Entity added under its key,
\* with that key as its text and with its entity type; an add_entity with
\* a key already present only increases the stored entity's occurrences
\* and adds to its mentions, and leaves the number of entities, the
\* relation list and the edges as they were
C18_FirstAddedKeepsIdentity ==
    [][/\ \A t \in DOMAIN kg.entities :
             /\ t \in DOMAIN kg'.entities
             /\ kg'.entities[t] = kg.entities[t]
             /\ heap'[kg.entities[t]].text = t
             /\ heap'[kg.entities[t]].entity_type = heap[kg.entities[t]].entity_type
       /\ \A id \in Pool :
             LET t == heap[id].text
                 w == add_entity(heap, kg, id)
             IN  (/\ t \in DOMAIN kg.entities
                  /\ heap' = w.heap
                  /\ kg' = w.kg)
                 => LET sid == kg.entities[t]
                    IN  /\ heap'[sid].occurrences > heap[sid].occurrences
                        /\ heap[sid].mentions \cup heap[id].mentions
                               = heap'[sid].mentions
                        /\ \A other \in Pool \ {sid} : heap'[other] = heap[other]
                        /\ DOMAIN kg'.entities = DOMAIN kg.entities
                        /\ kg'.entityOrder = kg.entityOrder
                        /\ kg'.relations = kg.relations
                        /\ kg'.edges = kg.edges
                        /\ kg'.nodes = kg.nodes]_vars

\* the store holds the first Entity added with text A, after an Entity of
\* another type and with two mentions was added under the same key, and
\* holds a relation
C18_Witness ==
    /\ tA \in DOMAIN kg.entities
    /\ kg.entities[tA] = 1
    /\ heap[1].entity_type = ORG
    /\ heap[1].occurrences = 3
    /\ heap[1].mentions = {tA, ta}
    /\ Len(kg.relations) >= 1

\* the (source, target) pair of keys of a relation of the list
RelationPair(h, r) == <<h[r.source].text, h[r.target].text>>

\* the graph holds one edge per ordered pair of the relation list, with the
\* relation type and the sentence of the last relation of the pair
EdgesOfRelations(h, g) ==
    LET pairs == {RelationPair(h, g.relations[i]) : i \in 1..Len(g.relations)}
    IN  /\ Len(g.edges) = Cardinality(pairs)
        /\ \A p \in pairs :
              LET last == CHOOSE i \in 1..Len(g.relations) :
                              /\ RelationPair(h, g.relations[i]) = p
                              /\ \A j \in (i + 1)..Len(g.relations) :
                                    RelationPair(h, g.relations[j]) # p
                  found == {i \in 1..Len(g.edges) :
                               <<g.edges[i].source, g.edges[i].target>> = p}
              IN  /\ Cardinality(found) = 1
                  /\ \A i \in found :
                        /\ g.edges[i].relation_type = g.relations[last].relation_type
                        /\ g.edges[i].sentence = g.relations[last].sentence
        /\ (Len(g.edges) = Len(g.relations)) <=>
               (Cardinality(pairs) = Len(g.relations))

\* C19: every add_relation appends the relation to the relation list, and
\* after it the graph holds exactly one edge per distinct ordered (source,
\* target) pair of the list, each with the relation type and the sentence
\* of the most recently added relation of its pair, so that there are as
\* many edges as relations exactly when all pairs are distinct
C19_OneEdgePerPair ==
    [][IF kg'.relations # kg.relations
       THEN /\ \E r \in PoolRelations : kg'.relations = Append(kg.relations, r)
            /\ EdgesOfRelations(heap', kg')
       ELSE kg'.edges = kg.edges]_vars

\* three relations were added, two of them with the same pair of keys and
\* different relation types, and the graph has two edges
C19_Witness ==
    /\ Len(kg.relations) = 3
    /\ Len(kg.edges) = 2
    /\ \E i, j \in 1..3 :
          /\ i < j
          /\ RelationPair(heap, kg.relations[i]) = RelationPair(heap, kg.relations[j])
          /\ kg.relations[i].relation_type # kg.relations[j].relation_type

\* the entries of the list with the direction, the other entity, the
\* relation type and the sentence
EntriesFor(relations, direction, entity, e) ==
    {i \in 1..Len(relations) :
        relations[i] = [direction |-> direction, relation_type |-> e.relation_type,
                        entity |-> entity, sentence |-> e.sentence]}

\* C20: get_relations(k) returns exactly one outgoing entry for each edge
\* k -> t, naming t with the edge's relation type and sentence, and one
\* incoming entry for each edge s -> k, naming s, and nothing else; it
\* returns the empty list for a key with no stored entity
C20_RelationsOfKey ==
    result.call = "get_relations" =>
        LET k == result.key
            outs == {i \in 1..Len(kg.edges) : kg.edges[i].source = k}
            ins == {i \in 1..Len(kg.edges) : kg.edges[i].target = k}
        IN  /\ \A i \in outs :
                  Cardinality(EntriesFor(result.relations, "outgoing",
                                         kg.edges[i].target, kg.edges[i])) = 1
            /\ \A i \in ins :
                  Cardinality(EntriesFor(result.relations, "incoming",
                                         kg.edges[i].source, kg.edges[i])) = 1
            /\ Len(result.relations) = Cardinality(outs) + Cardinality(ins)
            /\ k \notin DOMAIN kg.entities => result.relations = << >>

-----------------------------------------------------------------------------
(* find queries *)

\* the queries of the form "find <name>", and the name they give
IsFindQuery(q) == Len(q) > 5 /\ SubSeq(q, 1, 5) = <<"f","i","n","d"," ">>
FindName(q) == SubSeq(q, 6, Len(q))

\* C21: "find <name>" succeeds exactly when some stored key equals the name
\* exactly or ignoring case; a key equal to the name is preferred to one that
\* differs by case; on success data holds that entity and its relations as
\* get_relations returns them, and otherwise the response is success = false
\* with the not-found message
C21_FindQuery ==
    (result.call = "execute_query" /\ IsFindQuery(result.query)) =>
        LET name == FindName(result.query)
            r == result.response
            loose == {k \in DOMAIN kg.entities : Lower(k) = Lower(name)}
        IN  /\ "success" \in DOMAIN r
            /\ r.success <=> loose # {}
            /\ r.success =>
                   \E k \in loose :
                       /\ name \in DOMAIN kg.entities => k = name
                       /\ r.data = [entity |-> EntityToDict(heap[kg.entities[k]]),
                                    relations |-> get_relations(kg, k)]
            /\ ~r.success =>
                   /\ r.message = Fmt("Entity '{}' not found.", <<name>>)
                   /\ r.data = None

\* "find A" answered with the entity stored under "A", which was stored after
\* the one under "a" and has a relation
C21_Witness ==
    /\ result.call = "execute_query"
    /\ result.query = <<"f","i","n","d"," ","A">>
    /\ Len(kg.entityOrder) > 1
    /\ kg.entityOrder[1] = ta
    /\ result.response.success
    /\ result.response.data.entity.text = tA
    /\ result.response.data.relations # << >>

-----------------------------------------------------------------------------
(* path queries *)

\* the queries of the form "path from <A> to <B>" with one-letter names
IsPathQuery(q) ==
    /\ Len(q) = 16
    /\ SubSeq(q, 1, 10) = <<"p","a","t","h"," ","f","r","o","m"," ">>
    /\ SubSeq(q, 12, 15) = <<" ","t","o"," ">>

\* C22: "path from A to B" succeeds with data.length the number of steps of
\* a shortest directed path whenever both entities are stored and a directed
\* path leads from A to B, A = B included; otherwise it fails, naming the
\* source when A is not stored, the target when A is stored and B is not,
\* and reporting no path only when both are stored and no path connects them
C22_PathQuery ==
    (result.call = "execute_query" /\ IsPathQuery(result.query)) =>
        LET a == <<result.query[11]>>
            b == <<result.query[16]>>
            r == result.response
        IN  IF a \notin DOMAIN kg.entities
            THEN r = Response(FALSE, Fmt("Source entity '{}' not found.", <<a>>), None)
            ELSE IF b \notin DOMAIN kg.entities
            THEN r = Response(FALSE, Fmt("Target entity '{}' not found.", <<b>>), None)
            ELSE IF Connected(kg, a, b)
            THEN /\ r.success
                 /\ HasRoute(kg, a, b, r.data.length)
                 /\ \A n \in 0..(r.data.length - 1) : ~HasRoute(kg, a, b, n)
            ELSE r = Response(FALSE, Fmt("No path found from '{}' to '{}'.", <<a, b>>), None)

-----------------------------------------------------------------------------
(* related queries *)

\* the queries of the form "related <name>"
IsRelatedQuery(q) ==
    Len(q) > 8 /\ SubSeq(q, 1, 8) = <<"r","e","l","a","t","e","d"," ">>

\* whether g has an edge of type ty between x and y, in either direction
Related(g, x, y, ty) ==
    \E i \in 1..Len(g.edges) :
        /\ g.edges[i].relation_type = ty
        /\ \/ g.edges[i].source = x /\ g.edges[i].target = y
           \/ g.edges[i].source = y /\ g.edges[i].target = x

\* the discoveries of a related query for e: (i, j) where relation j of the
\* neighbour named by e's relation i has the type of relation i and names
\* another entity than e
Discoveries(g, e) ==
    LET direct == get_relations(g, e)
    IN  { p \in (1..Len(direct)) \X (1..(2 * Len(g.edges))) :
            LET others == get_relations(g, direct[p[1]].entity)
            IN  /\ p[2] <= Len(others)
                /\ others[p[2]].entity # e
                /\ others[p[2]].relation_type = direct[p[1]].relation_type }

\* whether discovery p is made before discovery q
Before(p, q) == p[1] < q[1] \/ (p[1] = q[1] /\ p[2] < q[2])

\* C23: for a stored entity e, "related e" succeeds with direct_relations
\* equal to get_relations(e) and with similar_entities holding at most 5
\* items, the first discoveries in discovery order, none of them e, each an
\* entity having a relation with a direct neighbour of e of the type of e's
\* relation with that neighbour
C23_RelatedQuery ==
    (/\ result.call = "execute_query"
     /\ IsRelatedQuery(result.query)
     /\ SubSeq(result.query, 9, Len(result.query)) \in DOMAIN kg.entities) =>
        LET e == SubSeq(result.query, 9, Len(result.query))
            r == result.response
            direct == get_relations(kg, e)
            found == Discoveries(kg, e)
        IN  /\ "success" \in DOMAIN r
            /\ r.success
            /\ r.data.direct_relations = direct
            /\ LET sim == r.data.similar_entities
               IN  /\ Len(sim) <= 5
                   /\ Len(sim) = (IF Cardinality(found) < 5 THEN Cardinality(found) ELSE 5)
                   /\ \A k \in 1..Len(sim) :
                          /\ sim[k].entity # e
                          /\ Related(kg, e, sim[k].via, sim[k].shared_relation_type)
                          /\ Related(kg, sim[k].via, sim[k].entity, sim[k].shared_relation_type)
                          /\ \E p \in found :
                                 /\ Cardinality({q \in found : Before(q, p)}) = k - 1
                                 /\ sim[k].via = direct[p[1]].entity
                                 /\ sim[k].entity =
                                        get_relations(kg, direct[p[1]].entity)[p[2]].entity

\* "related A" when more than 5 similar entities are discovered
C23_Witness ==
    /\ result.call = "execute_query"
    /\ result.query = <<"r","e","l","a","t","e","d"," ","A">>
    /\ tA \in DOMAIN kg.entities
    /\ Cardinality(Discoveries(kg, tA)) > 5
    /\ Len(result.response.data.similar_entities) = 5

-----------------------------------------------------------------------------
(* the summary *)

\* the place of node n in the order the graph first met its nodes
NodeIndex(g, n) == CHOOSE i \in 1..Len(g.nodes) : g.nodes[i] = n

\* whether entity x ranks before entity y: by higher degree, and for equal
\* degrees by the order in which the graph first met them
RanksBefore(g, x, y) ==
    \/ Degree(g.edges, x) > Degree(g.edges, y)
    \/ Degree(g.edges, x) = Degree(g.edges, y) /\ NodeIndex(g, x) < NodeIndex(g, y)

\* C24: get_summary reports the entity count and the relation count of the
\* store, type-grouped counts that sum to these totals, and a most_connected
\* list of the min(5, number of entities) entities of highest total degree,
\* in non-increasing order of degree, ties in the order of first encounter
C24_Summary ==
    result.call = "get_summary" =>
        LET s == result.summary
            mc == s.most_connected
            n == Cardinality(DOMAIN kg.entities)
        IN  /\ s.num_entities = n
            /\ s.num_relations = Len(kg.relations)
            /\ SumValues(s.entity_types, DOMAIN s.entity_types) = n
            /\ SumValues(s.relation_types, DOMAIN s.relation_types) = Len(kg.relations)
            /\ Len(mc) = (IF n < 5 THEN n ELSE 5)
            /\ \A i \in 1..Len(mc) :
                   /\ mc[i].entity \in DOMAIN kg.entities
                   /\ mc[i].type = heap[kg.entities[mc[i].entity]].entity_type
                   /\ mc[i].connections = Degree(kg.edges, mc[i].entity)
                   /\ \A j \in (i+1)..Len(mc) : RanksBefore(kg, mc[i].entity, mc[j].entity)
                   /\ \A x \in DOMAIN kg.entities :
                          (\A j \in 1..Len(mc) : mc[j].entity # x) =>
                              RanksBefore(kg, mc[i].entity, x)

-----------------------------------------------------------------------------
(* rehydration *)

\* C25: a Cache constructed over a directory of n records written by an
\* earlier instance, every file being readable, holds the min(n, max_size)
\* most recently modified entries, each under the fingerprint it was set
\* with, in load order (the most recent first)
C25_Rehydration ==
    [][(store'.call = "__init__" /\ ~store'.logged) =>
          LET recent == Take(Reverse(store.mtime), max_size)
          IN  /\ Len(store'.memory) = Len(recent)
              /\ \A i \in 1..Len(recent) :
                     /\ store'.memory[i].key \in CacheKeys
                     /\ get_cache_file(store'.memory[i].key) = recent[i]
                     /\ store'.memory[i].value = store.disk[recent[i]]]_vars

-----------------------------------------------------------------------------
(* input that is no command *)

\* whether the stripped query matches none of the six command patterns
Unmatched(q) ==
    /\ \A w \in {<<"f","i","n","d">>, <<"r","e","l","a","t","e","d">>,
                 <<"c","o","u","n","t">>, <<"e","x","p","o","r","t">>} :
           ~MatchCommand(q, w).matched
    /\ ~MatchPath(q).matched
    /\ Lower(q) # <<"h","e","l","p">>

\* whether the text contains "find" or "show", in any case
Lenient(text) ==
    \/ Contains(Lower(text), <<"f","i","n","d">>)
    \/ Contains(Lower(text), <<"s","h","o","w">>)

\* the words of the query without the find / show word, joined by spaces
RemainingWords(q) == Join(SelectSeq(Split(q), LAMBDA w : ~Lenient(w)))

\* C26: input matching no command pattern is answered as find of its
\* remaining words (the input without the find / show word) when it contains
\* "find" or "show" and words remain, and with the generic failure
\* otherwise; the command keywords match in any case
C26_LenientFind ==
    result.call = "execute_query" =>
        LET q == Strip(result.query)
            r == result.response
        IN  /\ Unmatched(q) =>
                   IF Lenient(q) /\ RemainingWords(q) # << >>
                   THEN r = handle_find(heap, kg, RemainingWords(q))
                   ELSE r = Response(FALSE,
                                Fmt("I don't understand that query. Try 'help' for a list of commands.",
                                    << >>),
                                None)
            /\ q = <<"C","o","u","n","t"," ","R","e","l","a","t","i","o","n","s">> =>
                   r.success /\ r.data.counts = count_relation_types(kg)

-----------------------------------------------------------------------------
(* occurrence counters of the resolved entities *)

RECURSIVE SumOccurrences(_)
SumOccurrences(entities) ==
    IF entities = << >> THEN 0
    ELSE Head(entities).occurrences + SumOccurrences(Tail(entities))

\* C27: every entity resolved from the workers' mentions counts as many
\* occurrences as the batch has mentions with its (normalizedText,
\* entityType) pair, so the counters sum to the number of mentions
C27_OccurrencesCountMentions ==
    Computed("EntityExtractor.extract") =>
        LET ms == MentionsOf(xres.text)
            out == xres.entities
        IN  /\ \A i \in 1..Len(out) :
                  out[i].occurrences =
                      Cardinality({j \in 1..Len(ms) : PairOf(ms[j]) = PairOf(out[i])})
            /\ SumOccurrences(out) = Len(ms)

\* five mentions were resolved to three entities, two of them seen twice
C27_Witness ==
    /\ Computed("EntityExtractor.extract")
    /\ Len(MentionsOf(xres.text)) = 5
    /\ Len(xres.entities) = 3
    /\ Cardinality({i \in 1..Len(xres.entities) : xres.entities[i].occurrences = 2}) = 2

-----------------------------------------------------------------------------
(* capacity *)

\* C28: after the construction and after every get, set and clear, whatever
\* the calls before and whatever the directory held, memory holds at most
\* max_size entries
C28_Capacity == Len(store.memory) <= max_size

\* a Cache was constructed over a directory holding more than max_size files
C28_Witness ==
    /\ store.call = "__init__"
    /\ Cardinality(DOMAIN store.disk) > max_size
    /\ Len(store.memory) = max_size

-----------------------------------------------------------------------------
(* queries and the store *)

\* C29: a find, path, related, count or help query and input that is no
\* command leave the entities with their counters and mentions, the
\* relations, the nodes and the edges as they were; only an export has an
\* effect, and that is on the file, not on the store
C29_QueriesReadOnly ==
    [][(result.call = "none" /\ result'.call = "execute_query") =>
          /\ heap' = heap
          /\ kg' = kg
          /\ kg2' = kg2
          /\ file' # file => IsExport(result'.query)]_vars

\* a related query was answered from a graph with merged entities and
\* relations
C29_Witness ==
    /\ result.call = "execute_query"
    /\ IsRelatedQuery(result.query)
    /\ result.response.success
    /\ kg.relations # << >>
    /\ \E t \in DOMAIN kg.entities : heap[kg.entities[t]].occurrences > 1

-----------------------------------------------------------------------------
(* load *)

\* the relation records of the snapshot whose endpoints are entities of it
Resolvable(data) ==
    SelectSeq(data.relations,
        LAMBDA r : \A t \in {r.source, r.target} :
                       \E i \in 1..Len(data.entities) : data.entities[i].text = t)

\* C30: load is all-or-nothing: when it returns, the store holds exactly
\* the entities of the snapshot and its resolvable relations; when it
\* raises (no file, no JSON, a record without a required field), the
\* store's entities, relations and edges are what they were before the call
C30_LoadAllOrNothing ==
    result.call = "load" =>
        LET now == to_dict(heap, kg2)
        IN  IF result.raised # ""
            THEN /\ now = result.before.store
                 /\ kg2.edges = result.before.edges
            ELSE LET recs == result.loaded.data.entities
                     rels == Resolvable(result.loaded.data)
                 IN  /\ Len(now.entities) = Len(recs)
                     /\ \A i \in 1..Len(recs) :
                            /\ now.entities[i].text = recs[i].text
                            /\ now.entities[i].entity_type = recs[i].entity_type
                            /\ now.entities[i].occurrences = GetOr(recs[i], "occurrences", 1)
                            /\ Range(now.entities[i].mentions) =
                                   Range(GetOr(recs[i], "mentions", <<recs[i].text>>))
                     /\ Len(now.relations) = Len(rels)
                     /\ \A i \in 1..Len(rels) :
                            now.relations[i] =
                                [source |-> rels[i].source, target |-> rels[i].target,
                                 relation_type |-> rels[i].relation_type,
                                 sentence |-> GetOr(rels[i], "sentence", "")]

=============================================================================
